---- MODULE Spec2Model ----
(***************************************************************************)
(* State-machine model of the browser-extension suite:                     *)
(*   - Identity Theft Protection (content script, popup, storage, logs)    *)
(*   - Webcam/Mic Privacy Guard (popup, background, content/inject, logs)  *)
(* Storage is chrome.storage as an abstract key-value store; every         *)
(* read-modify-write the code performs through callbacks/awaits is split   *)
(* into its read step and its write step.                                  *)
(***************************************************************************)
EXTENDS Integers, Sequences, FiniteSets, TLC

(***************************************************************************)
(* Bounds of the model                                                     *)
(***************************************************************************)
\* capacity of the itpLogs ring buffer (SETTINGS.logLimit, 800 in the code)
LogLimit == 2
\* number of appendLog / logActivity calls that may be in flight at once
MaxInflight == 2
\* capacity of the background's activityLog ("last 1000 activities")
ActivityCap == 2
\* capacity the popup's logActivity applies ("last 100 activities")
PopupActivityCap == 1
\* last instant of the sampled clock, in minutes
MaxNow == 6
\* scanUrl calls that may wait for Safe Browsing at once
MaxScans == 2

(***************************************************************************)
(* Universe of the Identity Theft Protection model                         *)
(***************************************************************************)
Pages == {"p1", "p2"}
Hosts == {"shop.example", "mail.example"}
Forms == {"cardForm", "mailForm", "plainForm"}
\* what the user may type at a PIN prompt or in the popup's PIN box
Pins  == {"1234", "9999"}
\* the PIN the user saves in the popup
SavedPins == {"1234"}
\* the hosts the user manages in the popup's trusted list
ManagedHosts == {"shop.example"}

Null == "null"
\* a storage key that was never set, and one that holds a value
Absent == [present |-> FALSE]
Stored(v) == [present |-> TRUE, value |-> v]

\* location.hostname of the page (CURRENT_HOST)
getHost(p) == IF p = "p1" THEN "shop.example" ELSE "mail.example"

\* location.protocol === "https:"
isHTTPS(p) == p = "p1"

\* types detected over the inputs of a form (detectTypes over form fields)
FormTypes(f) ==
    CASE f = "cardForm" -> <<"cardNumber">>
      [] f = "mailForm" -> <<"email">>
      [] OTHER -> << >>

\* whether the form's action attribute names another host than the page's
FormCrossOrigin(f) == f = "mailForm"

TYPE_WEIGHT(t) ==
    CASE t = "nin" -> 55
      [] t = "bvn" -> 60
      [] t = "bankAccount" -> 55
      [] t = "bankCode" -> 25
      [] t = "cardNumber" -> 80
      [] t = "cvv" -> 70
      [] t = "cardExpiry" -> 25
      [] t = "dob" -> 30
      [] t = "passport" -> 45
      [] t = "phone" -> 20
      [] t = "email" -> 20
      [] t = "password" -> 75
      [] t = "ssn" -> 70
      [] OTHER -> 0

Min(a, b) == IF a < b THEN a ELSE b
Max(a, b) == IF a > b THEN a ELSE b

\* without the Set: every occurrence kept
UniqueTypesKeepAll(types) == types

\* [...new Set(types)]: first occurrences, in order
RECURSIVE UniqueTypes(_)
UniqueTypes(types) ==
    IF types = << >> THEN << >>
    ELSE LET init == UniqueTypes(SubSeq(types, 1, Len(types) - 1))
             last == types[Len(types)]
         IN IF \E i \in 1..Len(init) : init[i] = last THEN init
            ELSE Append(init, last)

RECURSIVE SumWeights(_)
SumWeights(types) ==
    IF types = << >> THEN 0
    ELSE TYPE_WEIGHT(Head(types)) + SumWeights(Tail(types))

\* the thresholds taken strictly
RiskLevelStrict(score) ==
    IF score > 70 THEN "high" ELSE IF score > 40 THEN "mod" ELSE "low"

RiskLevel(score) ==
    IF score >= 70 THEN "high" ELSE IF score >= 40 THEN "mod" ELSE "low"

\* the trusted flag read the wrong way round
computeRiskTrustInverted(types, https, crossOrigin, trusted) ==
    LET base == Min(SumWeights(UniqueTypes(types)), 100)
        raw  == base + (IF ~https THEN 30 ELSE 0)
                     + (IF crossOrigin THEN 20 ELSE 0)
                     + (IF trusted THEN 20 ELSE 0)
        score == Max(0, Min(100, raw))
    IN [score |-> score, level |-> RiskLevel(score)]

computeRisk(types, https, crossOrigin, trusted) ==
    LET base == Min(SumWeights(UniqueTypes(types)), 100)
        raw  == base + (IF ~https THEN 30 ELSE 0)
                     + (IF crossOrigin THEN 20 ELSE 0)
                     + (IF ~trusted THEN 20 ELSE 0)
        score == Max(0, Min(100, raw))
    IN [score |-> score, level |-> RiskLevel(score)]

\* sha256Hex: a collision-free digest of the PIN text
sha256Hex(pin) == "sha256:" \o pin

DEFAULT_SETTINGS ==
    [enableProtection |-> TRUE,
     blockOnHighRisk |-> TRUE,
     enableBreachChecks |-> FALSE,
     requirePinForTrust |-> FALSE,
     pinHash |-> Null,
     trustedDomains |-> {},
     logLimit |-> LogLimit]

\* { ...DEFAULT_SETTINGS, ...(res.itpSettings || {}) }
MergeDefaults(stored) == IF stored.present THEN stored.value ELSE DEFAULT_SETTINGS

(***************************************************************************)
(* State                                                                   *)
(***************************************************************************)
VARIABLES
    now,                  \* Date.now(), in minutes
    \* ---- Identity Theft Protection ----
    itpSettings,          \* chrome.storage.local "itpSettings" (Absent until first save)
    itpLogs,              \* chrome.storage.local "itpLogs"
    itpOps,               \* appendLog calls in flight, by slot
    SETTINGS,             \* content script: SETTINGS of each page
    proceedOnceFlag,      \* content script: proceedOnceFlag of each page
    pendingFormToSubmit,  \* content script: pendingFormToSubmit of each page
    modalFor,             \* content script: form whose details the modal shows, Null when hidden
    badges,               \* content script: forms with a field badge on screen
    lastSubmit,           \* what became of the page's latest submit attempt
    popupOpen,            \* the settings popup is open
    popupSETTINGS,        \* popup: its SETTINGS copy
    lastTrust,            \* what the page's latest trust attempt returned, and its toast
    \* ---- Webcam/Mic Privacy Guard ----
    syncSettings,         \* chrome.storage.sync settings
    tempStore,            \* chrome.storage.local "temporaryPermissions"
    activityLog,          \* chrome.storage.local "activityLog"
    actOps,               \* logActivity calls in flight, by slot
    bgSettings,           \* BackgroundManager.settings
    bgTemp,               \* BackgroundManager.temporaryPermissions (Map, in insertion order)
    guardPopup,           \* PopupManager: open flag, currentTab, temporaryPermissions
    activeTab,            \* the browser's active tab
    csTemp,               \* MediaGuard.temporaryPermissions of each tab
    csIsBackground,       \* MediaGuard.isBackground of each tab
    injTemp,              \* inject.js temporaryPermissions of each tab
    injIsBackground,      \* inject.js isBackground of each tab
    lastMedia,            \* what the latest intercepted getUserMedia call returned
    \* ---- SecureGuard (malicious URL analyzer) ----
    safeBrowsingCache,    \* SecureGuardService.safeBrowsingCache
    sgScans,              \* scanUrl calls waiting for Safe Browsing, by slot
    sgClick,              \* content script: the intercepted link click and what became of it
    sgPage,               \* the page the tab shows
    sgDeep,               \* deepScanUrl calls scheduled or waiting for VirusTotal
    sgAlert,              \* content script: the threat alert on screen
    \* ---- Identity Theft Protection: breach checks ----
    bgSETTINGS,           \* background worker: its SETTINGS global
    breachCache,          \* background worker: breachCache (Map email -> {count, ts})
    hibpOps,              \* hibpCheckEmail lookups in flight, by slot
    emailField,           \* content script: the value of the page's email field
    breachToast,          \* content script: the latest ITP_BREACH_RESULT toast of each page
    \* ---- Identity Theft Protection: one watched input field ----
    elValue,              \* el.value, as a sequence of characters
    elHints,              \* the types whose keywords getFieldContextText(el) contains
    loggedSample,         \* the types and sample of the field-change entry passed to appendLog
    \* ---- Identity Theft Protection: one computeRisk call ----
    riskInput,            \* the argument { types, https, crossOrigin, trusted }
    riskOutput,           \* the score and level returned
    \* ---- Privacy Analyzer ----
    siteData,             \* PrivacyAnalyzer.siteData.get(tabId) of the one tab
    \* ---- Category blocker ----
    cbStore,              \* chrome.storage.local: blockedCategories, schedule, parentalPin
    cbBg,                 \* background: blockedCategories, userSettings.schedule, userSettings.parentalPIN
    cbTab,                \* the tab: what it shows, and the content script's overlay
    cbClock               \* new Date(): the day and the time of day

itpVars == <<itpSettings, itpLogs, itpOps, SETTINGS, proceedOnceFlag,
             pendingFormToSubmit, modalFor, badges, lastSubmit, popupOpen,
             popupSETTINGS, lastTrust>>

camVars == <<syncSettings, tempStore, activityLog, actOps, bgSettings, bgTemp,
             guardPopup, activeTab, csTemp, csIsBackground, injTemp, injIsBackground,
             lastMedia>>

sgVars == <<safeBrowsingCache, sgScans, sgClick, sgPage, sgDeep, sgAlert>>

\* Identity Theft Protection: the background worker's breach checks
breachVars == <<bgSETTINGS, breachCache, hibpOps, emailField, breachToast>>

\* Identity Theft Protection: the field analysis and scoring of one input
pureVars == <<elValue, elHints, loggedSample, riskInput, riskOutput>>

privVars == <<siteData>>

cbVars == <<cbStore, cbBg, cbTab, cbClock>>

\* the state of the extensions other than the two above
otherVars == <<sgVars, breachVars, pureVars, privVars, cbVars>>

vars == <<now, itpVars, camVars, otherVars>>

Slots == 1..MaxInflight

IdleOp == [phase |-> "idle"]

NoSubmit == [form |-> Null, outcome |-> "none", logged |-> Null]

NoTrust == [ok |-> FALSE, toast |-> Null]

InitITP ==
    /\ itpSettings = Absent
    /\ itpLogs = << >>
    /\ itpOps = [i \in Slots |-> IdleOp]
    /\ SETTINGS = [p \in Pages |-> DEFAULT_SETTINGS]
    /\ proceedOnceFlag = [p \in Pages |-> FALSE]
    /\ pendingFormToSubmit = [p \in Pages |-> Null]
    /\ modalFor = [p \in Pages |-> Null]
    /\ badges = [p \in Pages |-> {}]
    /\ lastSubmit = [p \in Pages |-> NoSubmit]
    /\ popupOpen = FALSE
    /\ popupSETTINGS = DEFAULT_SETTINGS
    /\ lastTrust = [p \in Pages |-> NoTrust]

(***************************************************************************)
(* Identity Theft Protection: logging                                      *)
(***************************************************************************)
\* a trim that would drop the newest entries instead of the oldest
RingBufferKeepOldest(logs, limit) ==
    IF Len(logs) > limit THEN SubSeq(logs, 1, limit) ELSE logs

\* while (logs.length > limit) logs.shift()
RECURSIVE RingBuffer(_, _)
RingBuffer(logs, limit) ==
    IF Len(logs) > limit THEN RingBuffer(Tail(logs), limit) ELSE logs

\* SETTINGS.logLimit || DEFAULT_SETTINGS.logLimit
EffectiveLogLimit(s) == IF s.logLimit = 0 THEN DEFAULT_SETTINGS.logLimit ELSE s.logLimit

FreeSlot(ops) == \E i \in DOMAIN ops : ops[i].phase = "idle"
FirstFree(ops) ==
    CHOOSE i \in DOMAIN ops :
        ops[i].phase = "idle" /\ \A j \in DOMAIN ops : ops[j].phase = "idle" => i <= j

\* the actions under which the content script logs
LogActions == {"field-change", "blocked-submit", "allowed-submit"}

LogEntry(p, action) == [ts |-> now, host |-> getHost(p), action |-> action]

\* a handler of page p calls appendLog(entry): chrome.storage.local.get(["itpLogs"], ...)
AppendLogCall(p, action) ==
    /\ FreeSlot(itpOps)
    /\ itpOps' = [itpOps EXCEPT ![FirstFree(itpOps)] =
                    [page |-> p, entry |-> LogEntry(p, action), phase |-> "get",
                     logs |-> << >>]]
    /\ UNCHANGED <<otherVars, camVars, now, itpSettings, itpLogs, SETTINGS, proceedOnceFlag,
                   pendingFormToSubmit, modalFor, badges, lastSubmit, popupOpen,
                   popupSETTINGS, lastTrust>>

\* the get callback: push, trim, issue chrome.storage.local.set
AppendLogCallback(i) ==
    /\ itpOps[i].phase = "get"
    /\ itpOps' = [itpOps EXCEPT ![i] =
                    [page |-> @.page, entry |-> @.entry, phase |-> "set",
                     logs |-> RingBuffer(Append(itpLogs, @.entry),
                                         EffectiveLogLimit(SETTINGS[@.page]))]]
    /\ UNCHANGED <<otherVars, camVars, now, itpSettings, itpLogs, SETTINGS, proceedOnceFlag,
                   pendingFormToSubmit, modalFor, badges, lastSubmit, popupOpen,
                   popupSETTINGS, lastTrust>>

\* the storage applies the set
AppendLogStore(i) ==
    /\ itpOps[i].phase = "set"
    /\ itpLogs' = itpOps[i].logs
    /\ itpOps' = [itpOps EXCEPT ![i] = IdleOp]
    /\ UNCHANGED <<otherVars, camVars, now, itpSettings, SETTINGS, proceedOnceFlag,
                   pendingFormToSubmit, modalFor, badges, lastSubmit, popupOpen,
                   popupSETTINGS, lastTrust>>

(***************************************************************************)
(* Identity Theft Protection: content script                               *)
(***************************************************************************)
\* SETTINGS.trustedDomains.includes(CURRENT_HOST)
IsTrusted(s, p) == getHost(p) \in s.trustedDomains

FormRisk(p, f, s) ==
    computeRisk(FormTypes(f), isHTTPS(p), FormCrossOrigin(f), IsTrusted(s, p))

\* a submit handler that would not consult the trusted list
ShouldBlockIgnoringTrust(s, p, risk, flag) ==
    /\ s.blockOnHighRisk
    /\ risk.level = "high"
    /\ ~flag

\* the condition under which the submit handler prevents the submission
ShouldBlock(s, p, risk, flag) ==
    /\ s.blockOnHighRisk
    /\ risk.level = "high"
    /\ ~IsTrusted(s, p)
    /\ ~flag

\* what became of a submit attempt: the form, whether it went out, and the
\* action of the entry the handler passed to appendLog (Null: no call)
SubmitResult(f, outcome, logged) == [form |-> f, outcome |-> outcome, logged |-> logged]

\* form "submit" listener installed by hookAllForms
SubmitHandler(p, f) ==
    LET s == SETTINGS[p]
        risk == FormRisk(p, f, s)
    IN IF ~s.enableProtection \/ FormTypes(f) = << >> THEN
           /\ lastSubmit' = [lastSubmit EXCEPT ![p] = SubmitResult(f, "proceeds", Null)]
           /\ UNCHANGED <<otherVars, camVars, now, itpSettings, itpLogs, itpOps, SETTINGS,
                          proceedOnceFlag, pendingFormToSubmit, modalFor, badges,
                          popupOpen, popupSETTINGS, lastTrust>>
       ELSE IF ShouldBlock(s, p, risk, proceedOnceFlag[p]) THEN
           /\ pendingFormToSubmit' = [pendingFormToSubmit EXCEPT ![p] = f]
           /\ modalFor' = [modalFor EXCEPT ![p] = f]
           /\ lastSubmit' = [lastSubmit EXCEPT ![p] =
                               SubmitResult(f, "prevented", "blocked-submit")]
           /\ UNCHANGED <<otherVars, camVars, now, itpSettings, itpLogs, itpOps, SETTINGS,
                          proceedOnceFlag, badges, popupOpen, popupSETTINGS, lastTrust>>
       ELSE
           /\ proceedOnceFlag' = [proceedOnceFlag EXCEPT ![p] = FALSE]
           /\ lastSubmit' = [lastSubmit EXCEPT ![p] =
                               SubmitResult(f, "proceeds", "allowed-submit")]
           /\ UNCHANGED <<otherVars, camVars, now, itpSettings, itpLogs, itpOps, SETTINGS,
                          pendingFormToSubmit, modalFor, badges, popupOpen, popupSETTINGS, lastTrust>>

\* debounced input/change/blur listener installed by hookAllInputs, on a field of
\* form f; its appendLog call is an AppendLogCall
FieldChange(p, f) ==
    /\ SETTINGS[p].enableProtection
    /\ badges' = [badges EXCEPT ![p] = IF FormTypes(f) = << >> THEN @ \ {f} ELSE @ \cup {f}]
    /\ UNCHANGED <<otherVars, camVars, now, itpSettings, itpLogs, itpOps, SETTINGS, proceedOnceFlag,
                   pendingFormToSubmit, modalFor, lastSubmit, popupOpen, popupSETTINGS, lastTrust>>

\* the badge's Details button: openDetailModal(details)
BadgeDetails(p, f) ==
    /\ f \in badges[p]
    /\ modalFor' = [modalFor EXCEPT ![p] = f]
    /\ UNCHANGED <<otherVars, camVars, now, itpSettings, itpLogs, itpOps, SETTINGS, proceedOnceFlag,
                   pendingFormToSubmit, badges, lastSubmit, popupOpen, popupSETTINGS, lastTrust>>

\* modal button data-act="proceed-once".  With a pending form it calls f.submit(),
\* which runs no submit listener; navigates tells whether that submission replaces
\* this document (it does not when the form targets another browsing context or
\* the response carries no document), in which case a fresh content script runs
ProceedOnce(p, navigates) ==
    /\ modalFor[p] # Null
    /\ IF pendingFormToSubmit[p] # Null THEN
           /\ lastSubmit' = [lastSubmit EXCEPT ![p] =
                               SubmitResult(pendingFormToSubmit[p], "native", Null)]
           /\ pendingFormToSubmit' = [pendingFormToSubmit EXCEPT ![p] = Null]
           /\ modalFor' = [modalFor EXCEPT ![p] = Null]
           /\ IF navigates THEN
                  /\ SETTINGS' = [SETTINGS EXCEPT ![p] = MergeDefaults(itpSettings)]
                  /\ proceedOnceFlag' = [proceedOnceFlag EXCEPT ![p] = FALSE]
                  /\ badges' = [badges EXCEPT ![p] = {}]
                  /\ lastTrust' = [lastTrust EXCEPT ![p] = NoTrust]
              ELSE
                  /\ proceedOnceFlag' = [proceedOnceFlag EXCEPT ![p] = TRUE]
                  /\ UNCHANGED <<SETTINGS, badges, lastTrust>>
       ELSE
           /\ ~navigates
           /\ modalFor' = [modalFor EXCEPT ![p] = Null]
           /\ proceedOnceFlag' = [proceedOnceFlag EXCEPT ![p] = TRUE]
           /\ UNCHANGED <<lastSubmit, pendingFormToSubmit, SETTINGS, badges, lastTrust>>
    /\ UNCHANGED <<otherVars, camVars, now, itpSettings, itpLogs, itpOps, popupOpen, popupSETTINGS>>

\* modal button data-act="block"
BlockSubmit(p) ==
    /\ modalFor[p] # Null
    /\ modalFor' = [modalFor EXCEPT ![p] = Null]
    /\ UNCHANGED <<otherVars, camVars, now, itpSettings, itpLogs, itpOps, SETTINGS, proceedOnceFlag,
                   pendingFormToSubmit, badges, lastSubmit, popupOpen, popupSETTINGS, lastTrust>>

\* a PIN gate that would let any PIN through while no pinHash is stored
PinGateOpenWithoutHash(s, pin) ==
    \/ ~s.requirePinForTrust
    \/ /\ pin # Null
       /\ (s.pinHash = Null \/ sha256Hex(pin) = s.pinHash)

\* whether trustCurrentDomainWithOptionalPIN passes its PIN gate; pin is what
\* prompt() returned (Null: cancelled or left empty)
PinGatePasses(s, pin) ==
    \/ ~s.requirePinForTrust
    \/ /\ pin # Null
       /\ s.pinHash # Null
       /\ sha256Hex(pin) = s.pinHash

\* what trustCurrentDomainWithOptionalPIN returns and the toast it shows
TrustResult(s, pin) ==
    IF s.requirePinForTrust /\ pin = Null THEN [ok |-> FALSE, toast |-> "Trust cancelled."]
    ELSE IF ~PinGatePasses(s, pin) THEN [ok |-> FALSE, toast |-> "Incorrect PIN."]
    ELSE [ok |-> TRUE, toast |-> "Trusted"]

\* modal button data-act="trust": trustCurrentDomainWithOptionalPIN
TrustCurrentDomain(p, pin) ==
    /\ modalFor[p] # Null
    /\ lastTrust' = [lastTrust EXCEPT ![p] = TrustResult(SETTINGS[p], pin)]
    /\ IF PinGatePasses(SETTINGS[p], pin) THEN
           /\ modalFor' = [modalFor EXCEPT ![p] = Null]
           /\ IF ~IsTrusted(SETTINGS[p], p) THEN
                  /\ SETTINGS' = [SETTINGS EXCEPT ![p].trustedDomains = @ \cup {getHost(p)}]
                  /\ itpSettings' = Stored(SETTINGS'[p])
              ELSE UNCHANGED <<SETTINGS, itpSettings>>
       ELSE UNCHANGED <<modalFor, SETTINGS, itpSettings>>
    /\ UNCHANGED <<otherVars, camVars, now, itpLogs, itpOps, proceedOnceFlag, pendingFormToSubmit, badges,
                   lastSubmit, popupOpen, popupSETTINGS>>

\* the page is loaded again: a fresh content script runs init()
PageLoad(p) ==
    /\ SETTINGS' = [SETTINGS EXCEPT ![p] = MergeDefaults(itpSettings)]
    /\ proceedOnceFlag' = [proceedOnceFlag EXCEPT ![p] = FALSE]
    /\ pendingFormToSubmit' = [pendingFormToSubmit EXCEPT ![p] = Null]
    /\ modalFor' = [modalFor EXCEPT ![p] = Null]
    /\ badges' = [badges EXCEPT ![p] = {}]
    /\ lastSubmit' = [lastSubmit EXCEPT ![p] = NoSubmit]
    /\ lastTrust' = [lastTrust EXCEPT ![p] = NoTrust]
    /\ emailField' = [emailField EXCEPT ![p] = Null]
    /\ UNCHANGED <<sgVars, pureVars, privVars, cbVars, bgSETTINGS, breachCache, hibpOps, breachToast>>
    /\ UNCHANGED <<camVars, now, itpSettings, itpLogs, itpOps, popupOpen, popupSETTINGS>>

(***************************************************************************)
(* Identity Theft Protection: settings popup                               *)
(***************************************************************************)
popupUnchanged == <<otherVars, camVars, now, itpLogs, itpOps, SETTINGS, proceedOnceFlag, pendingFormToSubmit,
                    modalFor, badges, lastSubmit, lastTrust>>

\* DOMContentLoaded: loadSettings()
PopupOpen ==
    /\ ~popupOpen
    /\ popupOpen' = TRUE
    /\ popupSETTINGS' = MergeDefaults(itpSettings)
    /\ UNCHANGED <<itpSettings, popupUnchanged>>

PopupClose ==
    /\ popupOpen
    /\ popupOpen' = FALSE
    /\ UNCHANGED <<itpSettings, popupSETTINGS, popupUnchanged>>

\* a popup handler that changes SETTINGS and calls saveSettings()
PopupSave(s) ==
    /\ popupOpen
    /\ popupSETTINGS' = s
    /\ itpSettings' = Stored(s)
    /\ UNCHANGED <<popupOpen, popupUnchanged>>

PopupToggleBlockOnHighRisk ==
    PopupSave([popupSETTINGS EXCEPT !.blockOnHighRisk = ~@])

PopupToggleRequirePin ==
    PopupSave([popupSETTINGS EXCEPT !.requirePinForTrust = ~@])

PopupSavePin(pin) ==
    PopupSave([popupSETTINGS EXCEPT !.pinHash = sha256Hex(pin)])

PopupClearPin ==
    PopupSave([popupSETTINGS EXCEPT !.pinHash = Null])

\* addTrust: no save when the host is already listed
PopupAddTrust(host) ==
    /\ host \notin popupSETTINGS.trustedDomains
    /\ PopupSave([popupSETTINGS EXCEPT !.trustedDomains = @ \cup {host}])

PopupRemoveTrust(host) ==
    /\ host \in popupSETTINGS.trustedDomains
    /\ PopupSave([popupSETTINGS EXCEPT !.trustedDomains = @ \ {host}])

(***************************************************************************)
(* Webcam/Mic Privacy Guard: universe and helpers                          *)
(***************************************************************************)
Tabs == {"t1", "t2"}
TabSite(t) == IF t = "t1" THEN "meet.example" ELSE "chat.example"

\* the instants at which the clock is sampled
TimePoints == {0, 5, MaxNow}
\* the choices of the popup's tempDuration select, in minutes
Durations == {5}
\* (tempWebcam.checked, tempMic.checked)
DeviceChoices == {<<TRUE, FALSE>>, <<FALSE, TRUE>>}
\* the blocking toggles the user flips in the popup
ToggledDevices == {"webcam"}

NoPerm == [present |-> FALSE]
Perm(w, m, e) == [present |-> TRUE, webcam |-> w, microphone |-> m, expiry |-> e]

\* Map.prototype.get over the entries <<site, perm>>
MapGet(m, k) ==
    IF \E i \in 1..Len(m) : m[i].site = k
    THEN (m[CHOOSE i \in 1..Len(m) : m[i].site = k]).perm
    ELSE NoPerm

\* a set that would add an entry without looking for the key
MapSetAppending(m, k, v) == Append(m, [site |-> k, perm |-> v])

\* Map.prototype.set: replaces the value of an existing key in place, else appends
MapSet(m, k, v) ==
    IF \E i \in 1..Len(m) : m[i].site = k
    THEN [i \in 1..Len(m) |-> IF m[i].site = k THEN [site |-> k, perm |-> v] ELSE m[i]]
    ELSE Append(m, [site |-> k, perm |-> v])

\* new Map(Object.entries(result.temporaryPermissions)) when the key is present
LoadedPermissions(store, current) == IF store.present THEN store.value ELSE current

\* the loop of cleanupExpiredPermissions: delete every entry with expiry <= now
Unexpired(m, t) == SelectSeq(m, LAMBDA e : ~(e.perm.expiry <= t))
HasExpired(m, t) == \E i \in 1..Len(m) : m[i].perm.expiry <= t

\* what cleanupExpiredPermissions leaves in storage
StoreAfterCleanup(m, t, store) == IF HasExpired(m, t) THEN Stored(Unexpired(m, t)) ELSE store

\* BackgroundManager.checkSitePermissions
checkSitePermissions(hostname, isBackground) ==
    LET tempPerms == MapGet(bgTemp, hostname)
    IN IF isBackground /\ bgSettings.autoBlockBackground THEN
           [webcamAllowed |-> FALSE, microphoneAllowed |-> FALSE, reason |-> "backgroundTab"]
       ELSE IF tempPerms.present /\ tempPerms.expiry > now THEN
           [webcamAllowed |-> tempPerms.webcam /\ ~bgSettings.webcamBlocked,
            microphoneAllowed |-> tempPerms.microphone /\ ~bgSettings.micBlocked,
            reason |-> "temporary"]
       ELSE
           [webcamAllowed |-> ~bgSettings.webcamBlocked,
            microphoneAllowed |-> ~bgSettings.micBlocked,
            reason |-> "global"]

\* the reply interceptedGetUserMedia falls back to after its 1 second timeout
TimedOutPermissions ==
    [webcamAllowed |-> FALSE, microphoneAllowed |-> FALSE, reason |-> "timeout"]

\* a guard that would still honour a grant at the instant of its expiry
InjectGrantActiveAtExpiry(perm, t) == perm.present /\ perm.expiry >= t

\* inject.js: "Handle temporary permissions" guard
InjectGrantActive(perm, t) == perm.present /\ perm.expiry > t

\* the decision of interceptedGetUserMedia for constraints {video, audio}
MediaDecision(video, audio, permissions, perm, t) ==
    LET videoAllowed0 == ~video \/ permissions.webcamAllowed
        audioAllowed0 == ~audio \/ permissions.microphoneAllowed
        videoAllowed == IF InjectGrantActive(perm, t) /\ video /\ perm.webcam
                        THEN TRUE ELSE videoAllowed0
        audioAllowed == IF InjectGrantActive(perm, t) /\ audio /\ perm.microphone
                        THEN TRUE ELSE audioAllowed0
    IN IF ~videoAllowed \/ ~audioAllowed THEN "denied" ELSE "granted"

\* popup updateSiteInfo: whether "Temporary access" is displayed for the site
PopupShowsGrant(m, site, t) ==
    LET sitePerms == MapGet(m, site) IN sitePerms.present /\ sitePerms.expiry > t

\* activities.splice(0, activities.length - cap) when over cap
KeepLast(activities, cap) ==
    IF Len(activities) > cap
    THEN SubSeq(activities, Len(activities) - cap + 1, Len(activities))
    ELSE activities

Activity(site, action, device) ==
    [timestamp |-> now, site |-> site, action |-> action, device |-> device]

\* logActivity up to its first await: chrome.storage.local.get(['activityLog'])
logActivity(ops, entry, cap) ==
    [ops EXCEPT ![FirstFree(ops)] = [entry |-> entry, cap |-> cap, phase |-> "get", logs |-> << >>]]

DEFAULT_SYNC ==
    [webcamBlocked |-> TRUE, micBlocked |-> TRUE, autoBlockBackground |-> TRUE,
     logActivity |-> TRUE]

ClosedPopup == [open |-> FALSE, tab |-> "t1", perms |-> << >>, settings |-> DEFAULT_SYNC]

InitCam ==
    /\ syncSettings = DEFAULT_SYNC
    /\ tempStore = Absent
    /\ activityLog = << >>
    /\ actOps = [i \in Slots |-> IdleOp]
    /\ bgSettings = DEFAULT_SYNC
    /\ bgTemp = << >>
    /\ guardPopup = ClosedPopup
    /\ activeTab = "t1"
    /\ csTemp = [t \in Tabs |-> NoPerm]
    /\ csIsBackground = [t \in Tabs |-> t # "t1"]
    /\ injTemp = [t \in Tabs |-> NoPerm]
    /\ injIsBackground = [t \in Tabs |-> FALSE]
    /\ lastMedia = [tab |-> Null, outcome |-> "none"]

(***************************************************************************)
(* Webcam/Mic Privacy Guard: actions                                       *)
(***************************************************************************)
\* time passes
Tick ==
    /\ \E t \in TimePoints : t > now /\ now' = t
    /\ UNCHANGED <<otherVars, itpVars, camVars>>

\* the user opens the popup on the active tab: new PopupManager()
GuardPopupOpen ==
    /\ ~guardPopup.open
    /\ guardPopup' = [open |-> TRUE, tab |-> activeTab, perms |-> << >>,
                      settings |-> syncSettings]
    /\ UNCHANGED <<otherVars, now, itpVars, syncSettings, tempStore, activityLog, actOps, bgSettings,
                   bgTemp, activeTab, csTemp, csIsBackground, injTemp, injIsBackground,
                   lastMedia>>

GuardPopupClose ==
    /\ guardPopup.open
    /\ guardPopup' = ClosedPopup
    /\ UNCHANGED <<otherVars, now, itpVars, syncSettings, tempStore, activityLog, actOps, bgSettings,
                   bgTemp, activeTab, csTemp, csIsBackground, injTemp, injIsBackground,
                   lastMedia>>

\* webcamToggle / micToggle change handlers: saveSettings()
GuardToggle(device) ==
    /\ guardPopup.open
    /\ LET s == IF device = "webcam"
                THEN [guardPopup.settings EXCEPT !.webcamBlocked = ~@]
                ELSE [guardPopup.settings EXCEPT !.micBlocked = ~@]
       IN /\ guardPopup' = [guardPopup EXCEPT !.settings = s]
          /\ syncSettings' = s
    \* the 'updateSettings' message makes the tab's content script sendSettingsToPage
    /\ injTemp' = [injTemp EXCEPT ![guardPopup.tab] = csTemp[guardPopup.tab]]
    /\ injIsBackground' = [injIsBackground EXCEPT ![guardPopup.tab] =
                              csIsBackground[guardPopup.tab]]
    /\ UNCHANGED <<otherVars, now, itpVars, tempStore, activityLog, actOps, bgSettings, bgTemp,
                   activeTab, csTemp, csIsBackground, lastMedia>>

\* chrome.storage.onChanged (sync) listener of the background: loadSettings()
BgLoadSettings ==
    /\ bgSettings # syncSettings
    /\ bgSettings' = syncSettings
    /\ UNCHANGED <<otherVars, now, itpVars, syncSettings, tempStore, activityLog, actOps, bgTemp,
                   guardPopup, activeTab, csTemp, csIsBackground, injTemp, injIsBackground,
                   lastMedia>>

\* PopupManager.grantTemporaryAccess, with what it sends to the tab's content script
\* (which forwards it to the page); its logActivity call is a PopupLogActivity
grantTemporaryAccess(webcamChecked, micChecked, duration) ==
    LET siteName == TabSite(guardPopup.tab)
        expiry == now + duration
        perm == Perm(webcamChecked, micChecked, expiry)
        perms == MapSet(guardPopup.perms, siteName, perm)
    IN /\ guardPopup.open
       /\ webcamChecked \/ micChecked
       /\ guardPopup' = [guardPopup EXCEPT !.perms = perms]
       /\ tempStore' = Stored(perms)
       /\ csTemp' = [csTemp EXCEPT ![guardPopup.tab] = perm]
       /\ injTemp' = [injTemp EXCEPT ![guardPopup.tab] = perm]
       /\ injIsBackground' = [injIsBackground EXCEPT ![guardPopup.tab] =
                                 csIsBackground[guardPopup.tab]]
       /\ UNCHANGED <<otherVars, now, itpVars, syncSettings, activityLog, actOps, bgSettings, bgTemp,
                      activeTab, csIsBackground, lastMedia>>

\* the service worker starts: constructor and init() (loadSettings,
\* loadTemporaryPermissions, cleanupExpiredPermissions)
BgStart ==
    LET loaded == LoadedPermissions(tempStore, << >>)
    IN /\ bgSettings' = syncSettings
       /\ bgTemp' = Unexpired(loaded, now)
       /\ tempStore' = StoreAfterCleanup(loaded, now, tempStore)
       /\ UNCHANGED <<otherVars, now, itpVars, syncSettings, activityLog, actOps, guardPopup,
                      activeTab, csTemp, csIsBackground, injTemp, injIsBackground,
                      lastMedia>>

\* the 'cleanupPermissions' alarm: cleanupExpiredPermissions()
cleanupExpiredPermissions ==
    /\ bgTemp' = Unexpired(bgTemp, now)
    /\ tempStore' = StoreAfterCleanup(bgTemp, now, tempStore)
    /\ UNCHANGED <<otherVars, now, itpVars, syncSettings, activityLog, actOps, bgSettings,
                   guardPopup, activeTab, csTemp, csIsBackground, injTemp,
                   injIsBackground, lastMedia>>

\* the user switches to tab t: visibilitychange/focus/blur in the content scripts
\* and the background's setBackground messages, each followed by sendSettingsToPage
ActivateTab(t) ==
    /\ t # activeTab
    /\ activeTab' = t
    /\ csIsBackground' = [u \in Tabs |-> u # t]
    /\ injIsBackground' = [u \in Tabs |-> u # t]
    /\ injTemp' = csTemp
    /\ UNCHANGED <<otherVars, now, itpVars, syncSettings, tempStore, activityLog, actOps, bgSettings,
                   bgTemp, guardPopup, csTemp, lastMedia>>

\* the page calls navigator.mediaDevices.getUserMedia({video, audio}) in tab t;
\* answered tells whether the permissions reply arrived within the timeout.  The
\* 'accessAttempt' message it posts first is a BgAccessAttempt
interceptedGetUserMedia(t, video, audio, answered) ==
    LET reply == checkSitePermissions(TabSite(t), csIsBackground[t])
        permissions == IF answered THEN reply ELSE TimedOutPermissions
    IN /\ video \/ audio
       /\ lastMedia' = [tab |-> t, video |-> video, audio |-> audio, at |-> now,
                        outcome |-> MediaDecision(video, audio, permissions, injTemp[t], now)]
       /\ UNCHANGED <<otherVars, now, itpVars, syncSettings, tempStore, activityLog, actOps, bgSettings,
                      bgTemp, guardPopup, activeTab, csTemp, csIsBackground, injTemp,
                      injIsBackground>>

\* what the content script reports for an access attempt (handleAccessAttempt)
AttemptAction(device, permissions) ==
    IF (device = "video" /\ permissions.webcamAllowed)
       \/ (device = "audio" /\ permissions.microphoneAllowed)
    THEN "allowed" ELSE "blocked"

\* background handleMessage, case 'accessAttempt', from the content script of tab t:
\* handleAccessAttempt up to the first await of its logActivity call
BgAccessAttempt(t, device) ==
    /\ bgSettings.logActivity
    /\ FreeSlot(actOps)
    /\ actOps' = logActivity(actOps,
                             Activity(TabSite(t),
                                      AttemptAction(device,
                                          checkSitePermissions(TabSite(t), csIsBackground[t])),
                                      device),
                             ActivityCap)
    /\ UNCHANGED <<otherVars, now, itpVars, syncSettings, tempStore, activityLog, bgSettings, bgTemp,
                   guardPopup, activeTab, csTemp, csIsBackground, injTemp, injIsBackground,
                   lastMedia>>

\* background handleMessage, case 'logActivity', from the content script of tab t
\* (detectTrackingAttempts): logActivity up to its first await
BgLogActivityMessage(t) ==
    /\ bgSettings.logActivity
    /\ FreeSlot(actOps)
    /\ actOps' = logActivity(actOps, Activity(TabSite(t), "suspicious", "tracking-detected"),
                             ActivityCap)
    /\ UNCHANGED <<otherVars, now, itpVars, syncSettings, tempStore, activityLog, bgSettings, bgTemp,
                   guardPopup, activeTab, csTemp, csIsBackground, injTemp, injIsBackground,
                   lastMedia>>

\* PopupManager.logActivity up to its first await, as grantTemporaryAccess calls it
PopupLogActivity(device) ==
    /\ guardPopup.open
    /\ FreeSlot(actOps)
    /\ actOps' = logActivity(actOps, Activity(TabSite(guardPopup.tab), "allowed", device),
                             PopupActivityCap)
    /\ UNCHANGED <<otherVars, now, itpVars, syncSettings, tempStore, activityLog, bgSettings, bgTemp,
                   guardPopup, activeTab, csTemp, csIsBackground, injTemp, injIsBackground,
                   lastMedia>>

\* logActivity resumes after its get: push, trim, issue the set
LogActivityResume(i) ==
    /\ actOps[i].phase = "get"
    /\ actOps' = [actOps EXCEPT ![i] =
                    [entry |-> @.entry, cap |-> @.cap, phase |-> "set",
                     logs |-> KeepLast(Append(activityLog, @.entry), @.cap)]]
    /\ UNCHANGED <<otherVars, now, itpVars, syncSettings, tempStore, activityLog, bgSettings, bgTemp,
                   guardPopup, activeTab, csTemp, csIsBackground, injTemp, injIsBackground,
                   lastMedia>>

\* the storage applies the set
LogActivityStore(i) ==
    /\ actOps[i].phase = "set"
    /\ activityLog' = actOps[i].logs
    /\ actOps' = [actOps EXCEPT ![i] = IdleOp]
    /\ UNCHANGED <<otherVars, now, itpVars, syncSettings, tempStore, bgSettings, bgTemp, guardPopup,
                   activeTab, csTemp, csIsBackground, injTemp, injIsBackground, lastMedia>>

(***************************************************************************)
(* SecureGuard (malicious URL analyzer)                                    *)
(***************************************************************************)
\* the page the tab starts on, and the external links it carries
HomePage == "http://home.example/"
Urls == {"http://news.example/", "http://192.0.2.7/"}

\* analyzeUrlPattern on these URLs: the risks whose pattern matches
analyzeUrlPattern(url) ==
    CASE url = "http://192.0.2.7/" -> <<"Uses IP address instead of domain">>
      [] url = "http://192.0.2.7-login.account-verify.tk" ->
             <<"Uses IP address instead of domain", "Contains banking/security keywords",
               "Uses suspicious top-level domain">>
      [] OTHER -> << >>

\* what checkSafeBrowsing resolves to: the matches' threat types, or Null when
\* the request failed
SafeBrowsingAnswers == {Null, "none", "MALWARE"}

\* the cache TTL of scanUrl, in minutes (300000 ms)
SafeBrowsingTTL == 5

\* the result scanUrl builds from the Safe Browsing answer and the pattern risks
ScanResult(url, answer) ==
    LET patternRisks == analyzeUrlPattern(url)
        matched == answer = "MALWARE"
        threats == (IF matched THEN <<"MALWARE">> ELSE << >>) \o patternRisks
    IN [url |-> url,
        isMalicious |-> matched \/ Len(patternRisks) > 2,
        threats |-> threats,
        scanTime |-> now]

\* scanUrl: "Check cache first"
CacheFresh(cache, url, t) ==
    cache[url].present /\ t - cache[url].value.timestamp < SafeBrowsingTTL

ScanSlots == 1..MaxScans

NoClick == [phase |-> "none", url |-> Null]
NoAlert == [type |-> "none", url |-> Null, shownOn |-> Null]

InitSG ==
    /\ safeBrowsingCache = [u \in Urls |-> Absent]
    /\ sgScans = [i \in ScanSlots |-> IdleOp]
    /\ sgClick = NoClick
    /\ sgPage = HomePage
    /\ sgDeep = {}
    /\ sgAlert = NoAlert

\* checkLinkSafety once the SCAN_URL response is in: confirm() for a flagged
\* link, callback() otherwise
LinkDecision(url, result) ==
    IF result.isMalicious THEN [phase |-> "confirm", url |-> url]
    ELSE [phase |-> "navigated", url |-> url]

\* scanUrl(url, tabId) up to its first await: answer from the cache, or ask Safe
\* Browsing.  reply tells whether a SCAN_URL sender waits for the result
StartScan(url, reply, click) ==
    IF CacheFresh(safeBrowsingCache, url, now) THEN
        /\ sgClick' = IF reply THEN LinkDecision(url, safeBrowsingCache[url].value.data)
                      ELSE click
        /\ UNCHANGED sgScans
    ELSE
        /\ sgScans' = [sgScans EXCEPT ![FirstFree(sgScans)] =
                          [phase |-> "fetch", url |-> url, reply |-> reply]]
        /\ sgClick' = click

\* click listener of interceptLinks on an external link: preventDefault and
\* checkLinkSafety, which sends SCAN_URL
ClickLink(url) ==
    /\ sgClick.phase \in {"none", "stayed"}
    /\ url # sgPage
    /\ CacheFresh(safeBrowsingCache, url, now) \/ FreeSlot(sgScans)
    /\ StartScan(url, TRUE, [phase |-> "waiting", url |-> url])
    /\ UNCHANGED <<now, itpVars, camVars, breachVars, pureVars, privVars, cbVars, safeBrowsingCache, sgPage, sgDeep, sgAlert>>

\* the tab loads url (the link's callback, or the user's own navigation): a new
\* document, and the webRequest main_frame listener calls scanUrl (at most
\* MaxScans calls wait at once)
LoadPage(url) ==
    /\ sgPage' = url
    /\ sgAlert' = NoAlert
    /\ CacheFresh(safeBrowsingCache, url, now) \/ FreeSlot(sgScans)
    /\ StartScan(url, FALSE, NoClick)

\* callback(): window.location.href = link.href
FollowLink ==
    /\ sgClick.phase = "navigated"
    /\ LoadPage(sgClick.url)
    /\ UNCHANGED <<now, itpVars, camVars, breachVars, pureVars, privVars, cbVars, safeBrowsingCache, sgDeep>>

\* the user answers the confirm() prompt
ConfirmDialog(ok) ==
    /\ sgClick.phase = "confirm"
    /\ sgClick' = [sgClick EXCEPT !.phase = IF ok THEN "navigated" ELSE "stayed"]
    /\ UNCHANGED <<now, itpVars, camVars, breachVars, pureVars, privVars, cbVars, safeBrowsingCache, sgScans, sgPage, sgDeep, sgAlert>>

\* the user opens another page in the tab
UserNavigates(url) ==
    /\ sgClick.phase \in {"none", "stayed"}
    /\ url # sgPage
    /\ LoadPage(url)
    /\ UNCHANGED <<now, itpVars, camVars, breachVars, pureVars, privVars, cbVars, safeBrowsingCache, sgDeep>>

\* scanUrl resumes with the answer of checkSafeBrowsing: build and cache the
\* result, schedule the deep scan, alert the tab, answer the sender
SafeBrowsingResponds(i, answer) ==
    LET op == sgScans[i]
        result == ScanResult(op.url, answer)
        suspicious == ~result.isMalicious /\ Len(result.threats) > 0
    IN /\ op.phase = "fetch"
       /\ sgScans' = [sgScans EXCEPT ![i] = IdleOp]
       /\ safeBrowsingCache' = [safeBrowsingCache EXCEPT ![op.url] =
                                   Stored([data |-> result, timestamp |-> now])]
       /\ sgDeep' = IF suspicious THEN sgDeep \cup {op.url} ELSE sgDeep
       /\ sgAlert' = IF result.isMalicious
                     THEN [type |-> "url", url |-> op.url, shownOn |-> sgPage]
                     ELSE sgAlert
       /\ sgClick' = IF op.reply /\ sgClick.phase = "waiting" /\ sgClick.url = op.url
                     THEN LinkDecision(op.url, result) ELSE sgClick
       /\ UNCHANGED <<now, itpVars, camVars, breachVars, pureVars, privVars, cbVars, sgPage>>

\* deepScanUrl resumes with the answer of checkVirusTotal; flagged tells whether
\* the engines' counts pass the alert threshold
VirusTotalResponds(url, flagged) ==
    /\ url \in sgDeep
    /\ sgDeep' = sgDeep \ {url}
    /\ sgAlert' = IF flagged THEN [type |-> "deep_scan", url |-> url, shownOn |-> sgPage]
                  ELSE sgAlert
    /\ UNCHANGED <<now, itpVars, camVars, breachVars, pureVars, privVars, cbVars, safeBrowsingCache, sgScans, sgClick, sgPage>>

\* the browser stops the service worker: its Maps, pending calls and timers are
\* gone, and a waiting sendMessage callback runs with lastError set, which
\* checkLinkSafety answers with callback()
WorkerStops ==
    /\ safeBrowsingCache' = [u \in Urls |-> Absent]
    /\ sgScans' = [i \in ScanSlots |-> IdleOp]
    /\ sgDeep' = {}
    /\ sgClick' = IF sgClick.phase = "waiting"
                  THEN [sgClick EXCEPT !.phase = "navigated"] ELSE sgClick
    /\ UNCHANGED <<now, itpVars, camVars, breachVars, pureVars, privVars, cbVars, sgPage, sgAlert>>

(***************************************************************************)
(* Identity Theft Protection: email breach checks (background worker)      *)
(***************************************************************************)
Emails == {"a@x.example"}

\* 15 * 60 * 1000 ms, in minutes
BreachTTL == 15

BreachTimePoints == {0, 1, BreachTTL, BreachTTL + 1}

\* let SETTINGS = null, until the storage callback has run
NotLoaded == [loaded |-> FALSE]

\* SETTINGS = res.itpSettings || {}
Loaded(stored) == [loaded |-> TRUE, stored |-> stored]

\* what hibpCheckEmail resolves to
HibpResults == {[error |-> TRUE], [error |-> FALSE, count |-> 1]}

NoToast == [shown |-> FALSE]

InitBreach ==
    /\ bgSETTINGS = NotLoaded
    /\ breachCache = [e \in Emails |-> Absent]
    /\ hibpOps = [i \in Slots |-> IdleOp]
    /\ emailField = [p \in Pages |-> Null]
    /\ breachToast = [p \in Pages |-> NoToast]

\* if (SETTINGS && SETTINGS.enableBreachChecks === false) return;
BreachGate(bg) == ~(bg.loaded /\ bg.stored.present /\ ~bg.stored.value.enableBreachChecks)

\* cached && (now - cached.ts) < 15 * 60 * 1000
BreachCacheFresh(cache, email, t) ==
    cache[email].present /\ t - cache[email].value.ts < BreachTTL

\* the background's ITP_BREACH_CHECK listener
BreachCheckMessage(p, email) ==
    IF ~BreachGate(bgSETTINGS)
    THEN UNCHANGED <<breachCache, hibpOps, breachToast>>
    ELSE IF BreachCacheFresh(breachCache, email, now)
    THEN /\ breachToast' = [breachToast EXCEPT ![p] =
                [shown |-> TRUE, email |-> email, count |-> breachCache[email].value.count,
                 cached |-> TRUE, field |-> email]]
         /\ UNCHANGED <<breachCache, hibpOps>>
    ELSE /\ hibpOps' = [hibpOps EXCEPT ![FirstFree(hibpOps)] =
                [phase |-> "lookup", email |-> email, page |-> p, ts |-> now]]
         /\ UNCHANGED <<breachCache, breachToast>>

\* the change handler of an email field (hookAllInputs) and requestBreachCheck
EmailTyped(p, email) ==
    /\ FreeSlot(hibpOps)
    /\ emailField' = [emailField EXCEPT ![p] = email]
    /\ IF SETTINGS[p].enableBreachChecks
       THEN BreachCheckMessage(p, email)
       ELSE UNCHANGED <<breachCache, hibpOps, breachToast>>
    /\ UNCHANGED <<bgSETTINGS, sgVars, pureVars, privVars, cbVars, camVars, itpVars, now>>

\* hibpCheckEmail(email).then(result => ...)
HibpResponds(i, result) ==
    /\ hibpOps[i].phase = "lookup"
    /\ hibpOps' = [hibpOps EXCEPT ![i] = IdleOp]
    /\ IF result.error
       THEN UNCHANGED <<breachCache, breachToast>>
       ELSE /\ breachCache' = [breachCache EXCEPT ![hibpOps[i].email] =
                    Stored([count |-> result.count, ts |-> hibpOps[i].ts, storedAt |-> now])]
            /\ breachToast' = [breachToast EXCEPT ![hibpOps[i].page] =
                    [shown |-> TRUE, email |-> hibpOps[i].email, count |-> result.count,
                     cached |-> FALSE, field |-> emailField[hibpOps[i].page]]]
    /\ UNCHANGED <<bgSETTINGS, emailField, sgVars, pureVars, privVars, cbVars, camVars, itpVars, now>>

\* the service worker is stopped and started again: its globals are new
BgWorkerStart ==
    /\ bgSETTINGS' = NotLoaded
    /\ breachCache' = [e \in Emails |-> Absent]
    /\ hibpOps' = [i \in Slots |-> IdleOp]
    /\ UNCHANGED <<emailField, breachToast, sgVars, pureVars, privVars, cbVars, camVars, itpVars, now>>

\* chrome.storage.local.get(["itpSettings"], res => { SETTINGS = res.itpSettings || {}; })
BgSettingsLoaded ==
    /\ ~bgSETTINGS.loaded
    /\ bgSETTINGS' = Loaded(itpSettings)
    /\ UNCHANGED <<breachCache, hibpOps, emailField, breachToast, sgVars, pureVars, privVars, cbVars, camVars, itpVars, now>>

\* chrome.storage.onChanged: SETTINGS = changes.itpSettings.newValue || {}
BgSettingsChanged ==
    /\ bgSETTINGS.loaded
    /\ bgSETTINGS.stored # itpSettings
    /\ bgSETTINGS' = Loaded(itpSettings)
    /\ UNCHANGED <<breachCache, hibpOps, emailField, breachToast, sgVars, pureVars, privVars, cbVars, camVars, itpVars, now>>

\* enableBreachChecks.addEventListener("change", ...)
PopupToggleBreachChecks ==
    PopupSave([popupSETTINGS EXCEPT !.enableBreachChecks = ~popupSETTINGS.enableBreachChecks])

\* time passes
BreachTick ==
    /\ \E t \in BreachTimePoints : t > now /\ now' = t
    /\ UNCHANGED <<itpVars, camVars, otherVars>>

(***************************************************************************)
(* Category blocker: requests, the blocking overlay and its PIN override   *)
(***************************************************************************)
Categories == {"gambling", "socialMedia"}

\* rules.json
domainList(category) == IF category = "gambling" THEN {"bet.example"} ELSE {"chat.example"}

\* the pages of the tab: their host, and the first label of a listed domain
\* that their text contains (Null when none)
CbPages ==
    {[host |-> "bet.example", word |-> Null],
     [host |-> "chat.example", word |-> Null],
     [host |-> "news.example", word |-> "bet"]}

\* token.split(".")[0]
FirstLabel(domain) == IF domain = "bet.example" THEN "bet" ELSE "chat"

CbDays == {"Monday", "Tuesday"}

\* the time of day, hours and minutes as one number (12:00 is 1200)
CbTimes == {700, 1200}

CbClocks == [day : CbDays, time : CbTimes]

\* what the PIN box of the popup or of the overlay may hold
CbPins == {"1234", "0000"}

\* a schedule rule of the kind isBlockedBySchedule expects
ScheduleRule(category) ==
    [category |-> category, start |-> 800, end |-> 1700, days |-> {"Monday"}]

\* the stored schedule as an array of rules, [] when the key is missing
RuleArray(rules) == [isArray |-> TRUE, rules |-> rules]

\* the object the popup stores: { start, end, days }
PopupSchedule(start, end, days) == [isArray |-> FALSE, start |-> start, end |-> end, days |-> days]

NoTab == [shows |-> "nothing"]

\* storage is empty and the background has loaded it
InitCb ==
    /\ cbStore = [blockedCategories |-> {}, schedule |-> RuleArray(<< >>), parentalPin |-> Null]
    /\ cbBg = [blockedCategories |-> {}, schedule |-> RuleArray(<< >>), parentalPIN |-> Null]
    /\ cbTab = NoTab
    /\ cbClock = [day |-> "Monday", time |-> 1200]

isBlockedBySchedule(schedule, category, clock) ==
    /\ schedule.isArray
    /\ \E i \in 1..Len(schedule.rules) :
          LET rule == schedule.rules[i]
          IN /\ rule.category = category
             /\ clock.day \in rule.days
             /\ clock.time >= rule.start
             /\ clock.time <= rule.end

\* (userSettings.schedule && userSettings.schedule.length > 0) ? scheduleBlocks : true
shouldConsider(schedule, category, clock) ==
    IF schedule.isArray /\ Len(schedule.rules) > 0
    THEN isBlockedBySchedule(schedule, category, clock)
    ELSE TRUE

\* the onBeforeRequest listener returns a redirect to blocked.html
RequestRedirected(bg, host, clock) ==
    \E category \in Categories :
        /\ category \in bg.blockedCategories
        /\ shouldConsider(bg.schedule, category, clock)
        /\ host \in domainList(category)

\* the verifyPageContent handler answers shouldBlock: true
verifyPageContent(bg, page) ==
    \E category \in Categories :
        /\ category \in bg.blockedCategories
        /\ \/ page.host \in domainList(category)
           \/ \E domain \in domainList(category) : FirstLabel(domain) = page.word

\* the verifyPin handler
verifyPin(bg, pin) == bg.parentalPIN # Null /\ pin = bg.parentalPIN

\* the tab requests page; override tells whether the overlay's reload asks
LoadTab(page, override) ==
    cbTab' = IF RequestRedirected(cbBg, page.host, cbClock)
             THEN [shows |-> "blocked.html", page |-> page, override |-> override]
             ELSE [shows |-> "page", page |-> page, override |-> override,
                   scanned |-> FALSE, overlay |-> FALSE]

\* the user opens a page in the tab
CbNavigate(page) ==
    /\ LoadTab(page, FALSE)
    /\ UNCHANGED <<cbStore, cbBg, cbClock, now, itpVars, camVars, sgVars, breachVars, pureVars, privVars>>

\* content script: scanAndCheckPage and the answer of verifyPageContent
CbScan ==
    /\ cbTab.shows = "page"
    /\ ~cbTab.scanned
    /\ cbTab' = [cbTab EXCEPT !.scanned = TRUE,
                              !.overlay = verifyPageContent(cbBg, cbTab.page)]
    /\ UNCHANGED <<cbStore, cbBg, cbClock, now, itpVars, camVars, sgVars, breachVars, pureVars, privVars>>

\* the overlay's Unlock button: verifyPin, then remove the overlay and reload
CbUnlock(pin) ==
    /\ cbTab.shows = "page"
    /\ cbTab.overlay
    /\ IF verifyPin(cbBg, pin) THEN LoadTab(cbTab.page, TRUE) ELSE UNCHANGED cbTab
    /\ UNCHANGED <<cbStore, cbBg, cbClock, now, itpVars, camVars, sgVars, breachVars, pureVars, privVars>>

\* popup: Save, Reset or a profile: the preferences are stored and sent to the
\* background with updatePreferences
CbPopupSave(categories) ==
    /\ cbStore' = [cbStore EXCEPT !.blockedCategories = categories]
    /\ cbBg' = [cbBg EXCEPT !.blockedCategories = categories]
    /\ UNCHANGED <<cbTab, cbClock, now, itpVars, camVars, sgVars, breachVars, pureVars, privVars>>

\* popup: Apply Schedule
CbPopupApplySchedule(start, end, days) ==
    /\ cbStore' = [cbStore EXCEPT !.schedule = PopupSchedule(start, end, days)]
    /\ UNCHANGED <<cbBg, cbTab, cbClock, now, itpVars, camVars, sgVars, breachVars, pureVars, privVars>>

\* the settings page for extended rules stores an array of rules
CbStoreRules(rules) ==
    /\ cbStore' = [cbStore EXCEPT !.schedule = RuleArray(rules)]
    /\ UNCHANGED <<cbBg, cbTab, cbClock, now, itpVars, camVars, sgVars, breachVars, pureVars, privVars>>

\* popup: Set PIN
CbPopupSetPin(pin) ==
    /\ cbStore' = [cbStore EXCEPT !.parentalPin = pin]
    /\ UNCHANGED <<cbBg, cbTab, cbClock, now, itpVars, camVars, sgVars, breachVars, pureVars, privVars>>

\* whether the background has seen every storage change
CbInSync ==
    /\ cbBg.schedule = cbStore.schedule
    /\ cbBg.parentalPIN = cbStore.parentalPin
    /\ cbBg.blockedCategories = cbStore.blockedCategories

\* storage.onChanged listener of the background
CbStorageChanged ==
    /\ ~CbInSync
    /\ cbBg' = [blockedCategories |-> cbStore.blockedCategories,
                schedule |-> cbStore.schedule,
                parentalPIN |-> cbStore.parentalPin]
    /\ UNCHANGED <<cbStore, cbTab, cbClock, now, itpVars, camVars, sgVars, breachVars, pureVars, privVars>>

\* time passes
CbClockMoves ==
    /\ cbClock' \in CbClocks \ {cbClock}
    /\ UNCHANGED <<cbStore, cbBg, cbTab, now, itpVars, camVars, sgVars, breachVars, pureVars, privVars>>

NextCategory ==
    \/ \E page \in CbPages : CbNavigate(page)
    \/ CbScan
    \/ \E pin \in CbPins : CbUnlock(pin)
    \/ \E categories \in SUBSET Categories : CbPopupSave(categories)
    \/ CbPopupApplySchedule(800, 1700, {"Monday"})
    \/ \E category \in Categories : CbStoreRules(<<ScheduleRule(category)>>)
    \/ CbPopupSetPin("1234")
    \/ CbStorageChanged
    \/ CbClockMoves

(***************************************************************************)
(* Privacy Analyzer: the privacy score of one tab                          *)
(***************************************************************************)
\* hostnames of the requests a page makes
RequestDomains == {"www.doubleclick.net", "ssl.google-analytics.com", "cdn.example"}

\* some entry of trackerDomains is a substring of the hostname
isTracker(domain) == domain \in {"www.doubleclick.net", "ssl.google-analytics.com"}

\* the response headers isSecurityHeader accepts, of those a response carries
SecurityHeaders == {"content-security-policy"}

CookieNames == {"sid"}

\* parseCookie: the flags found in a Set-Cookie header
Cookies == [secure : BOOLEAN, httpOnly : BOOLEAN]

\* fingerprintingAttempts entries kept apart
MaxFingerprints == 3

NoSite == [present |-> FALSE]

InitPriv == siteData = NoSite

\* what the forEach over siteData.cookies.values() deducts
RECURSIVE CookiePenalty(_, _)
CookiePenalty(cookies, names) ==
    IF names = {} THEN 0
    ELSE LET c == CHOOSE x \in names : TRUE
         IN (IF cookies[c].present /\ ~cookies[c].value.secure THEN 5 ELSE 0)
          + (IF cookies[c].present /\ ~cookies[c].value.httpOnly THEN 3 ELSE 0)
          + CookiePenalty(cookies, names \ {c})

\* the score before the clamp
RawPrivacyScore(d) ==
    100 - Cardinality(d.trackers) * 10
           - CookiePenalty(d.cookies, CookieNames)
           - (IF ~d.isHTTPS THEN 30 ELSE 0)
           - d.fingerprintingAttempts * 15
           + Cardinality(d.securityHeaders) * 5

\* updatePrivacyScore(tabId)
updatePrivacyScore(d) == [d EXCEPT !.privacyScore = Max(0, Min(100, RawPrivacyScore(d)))]

\* siteData.privacyScore + n * 10, without Math.min
BlockedScoreUncapped(score, n) == score + n * 10

\* Math.min(100, siteData.privacyScore + n * 10)
BlockedScore(score, n) == Min(100, score + n * 10)

\* tabs.onUpdated with status "loading": initializeSiteAnalysis(tabId, url)
initializeSiteAnalysis(https) ==
    /\ siteData' = [present |-> TRUE, isHTTPS |-> https, trackers |-> {},
                    cookies |-> [c \in CookieNames |-> Absent], securityHeaders |-> {},
                    fingerprintingAttempts |-> 0,
                    privacyScore |-> IF https THEN 70 ELSE 30]
    /\ UNCHANGED <<now, itpVars, camVars, sgVars, breachVars, pureVars, cbVars>>

\* tabs.onRemoved
TabRemoved ==
    /\ siteData.present
    /\ siteData' = NoSite
    /\ UNCHANGED <<now, itpVars, camVars, sgVars, breachVars, pureVars, cbVars>>

\* webRequest.onBeforeRequest: analyzeRequest(details); fingerprinting tells
\* whether the request is a script whose URL isPotentialFingerprinting accepts
analyzeRequest(domain, fingerprinting) ==
    /\ siteData.present
    /\ fingerprinting => siteData.fingerprintingAttempts < MaxFingerprints
    /\ siteData' = updatePrivacyScore(
           [siteData EXCEPT
               !.trackers = IF isTracker(domain) THEN @ \cup {domain} ELSE @,
               !.fingerprintingAttempts = IF fingerprinting THEN @ + 1 ELSE @])
    /\ UNCHANGED <<now, itpVars, camVars, sgVars, breachVars, pureVars, cbVars>>

\* webRequest.onResponseStarted: analyzeResponse(details), for a response with
\* the security headers in headers and the cookies of setCookie
analyzeResponse(headers, setCookie) ==
    /\ siteData.present
    /\ siteData' = updatePrivacyScore(
           [siteData EXCEPT
               !.securityHeaders = @ \cup headers,
               !.cookies = [c \in CookieNames |->
                               IF setCookie[c].present THEN setCookie[c] ELSE @[c]]])
    /\ UNCHANGED <<now, itpVars, camVars, sgVars, breachVars, pureVars, cbVars>>

\* handleMessage, case FINGERPRINTING_DETECTED
FingerprintingDetected ==
    /\ siteData.present
    /\ siteData.fingerprintingAttempts < MaxFingerprints
    /\ siteData' = updatePrivacyScore(
           [siteData EXCEPT !.fingerprintingAttempts = @ + 1])
    /\ UNCHANGED <<now, itpVars, camVars, sgVars, breachVars, pureVars, cbVars>>

\* handleMessage, case BLOCK_ALL_TRACKERS
blockAllTrackers ==
    /\ siteData.present
    /\ siteData' = [siteData EXCEPT
           !.trackers = {},
           !.privacyScore = BlockedScore(@, Cardinality(siteData.trackers))]
    /\ UNCHANGED <<now, itpVars, camVars, sgVars, breachVars, pureVars, cbVars>>

\* handleMessage, case BLOCK_TRACKER
blockSpecificTracker(domain) ==
    /\ siteData.present
    /\ siteData' = [siteData EXCEPT
           !.trackers = @ \ {domain},
           !.privacyScore = BlockedScore(@, 1)]
    /\ UNCHANGED <<now, itpVars, camVars, sgVars, breachVars, pureVars, cbVars>>

(***************************************************************************)
(* Identity Theft Protection: field analysis and the logged sample         *)
(***************************************************************************)
\* the characters a field value is made of, and the longest value
Alphabet == {"1", "2", "a", "@"}

MaxValueLen == 5

FieldValues == UNION {[1..n -> Alphabet] : n \in 0..MaxValueLen}

\* the types detectTypes tests, in the order it adds them to its Set
TypeOrder ==
    <<"email", "phone", "cardNumber", "cvv", "cardExpiry", "bvn", "nin",
      "bankAccount", "passport", "dob", "ssn", "password">>

AllTypes == {TypeOrder[i] : i \in 1..Len(TypeOrder)}

\* keyword hits of the field's label, name and placeholder: none, one type, or
\* a label such as "mobile pin" (KEYWORDS.phone and KEYWORDS.password)
FieldContexts == {{}} \cup {{t} : t \in AllTypes} \cup {{"phone", "password"}}

\* the bullet character of the masks
Bullet == "*"

Mask(n) == [i \in 1..n |-> Bullet]

IsDigit(c) == c \in {"0", "1", "2", "3", "4", "5", "6", "7", "8", "9"}

\* \w
IsWordChar(c) ==
    \/ IsDigit(c)
    \/ c = "_"
    \/ c \in {"a", "b", "c", "d", "e", "f", "g", "h", "i", "j", "k", "l", "m",
              "n", "o", "p", "q", "r", "s", "t", "u", "v", "w", "x", "y", "z"}
    \/ c \in {"A", "B", "C", "D", "E", "F", "G", "H", "I", "J", "K", "L", "M",
              "N", "O", "P", "Q", "R", "S", "T", "U", "V", "W", "X", "Y", "Z"}

\* raw.replace(/\D/g, "")
OnlyDigits(raw) == SelectSeq(raw, IsDigit)

\* raw.slice(-4)
SliceLast4(raw) == IF Len(raw) <= 4 THEN raw ELSE SubSeq(raw, Len(raw) - 3, Len(raw))

\* /\b\d{lo,hi}\b/.test(val)
DigitRun(val, lo, hi) ==
    \E i \in 1..Len(val), j \in 1..Len(val) :
        /\ j - i + 1 >= lo
        /\ j - i + 1 <= hi
        /\ \A k \in i..j : IsDigit(val[k])
        /\ i = 1 \/ ~IsWordChar(val[i - 1])
        /\ j = Len(val) \/ ~IsWordChar(val[j + 1])

\* [ -]
IsSeparator(c) == c \in {" ", "-"}

\* \b between the characters k and k + 1 of val
WordBoundary(val, k) ==
    (k >= 1 /\ k <= Len(val) /\ IsWordChar(val[k]))
        # (k + 1 >= 1 /\ k + 1 <= Len(val) /\ IsWordChar(val[k + 1]))

\* /\b(?:\d[ -]*?){13,19}\b/.test(val)
CardPattern(val) ==
    \E i \in 1..Len(val), j \in 1..Len(val) :
        /\ i + 12 <= j
        /\ IsDigit(val[i])
        /\ WordBoundary(val, i - 1)
        /\ WordBoundary(val, j)
        /\ \A k \in i..j : IsDigit(val[k]) \/ IsSeparator(val[k])
        /\ LET count == Len(OnlyDigits(SubSeq(val, i, j)))
           IN count >= 13 /\ count <= 19

\* /(?:\+?234|0)\d{10}\b/.test(val)
PhonePattern(val) ==
    \E i \in 1..Len(val) :
        \E first \in {i + 1, i + 3} :
            /\ first + 9 <= Len(val)
            /\ IF first = i + 1 THEN val[i] = "0"
               ELSE SubSeq(val, i, i + 2) = <<"2", "3", "4">>
            /\ \A k \in first..(first + 9) : IsDigit(val[k])
            /\ WordBoundary(val, first + 9)

\* PATTERNS[type].test(val); the patterns of email ("."), cardExpiry, dob and
\* ssn ("/", "." or a "-" between digit groups) and passport (capital letters)
\* need characters no value of FieldValues or CardValues has
PatternTest(type, val) ==
    CASE type \in {"bvn", "nin"} -> DigitRun(val, 11, 11)
      [] type = "bankAccount" -> DigitRun(val, 10, 10)
      [] type = "cvv" -> DigitRun(val, 3, 4)
      [] type = "cardNumber" -> CardPattern(val)
      [] type = "phone" -> PhonePattern(val)
      [] OTHER -> FALSE

DigitValue(c) ==
    CASE c = "0" -> 0 [] c = "1" -> 1 [] c = "2" -> 2 [] c = "3" -> 3 [] c = "4" -> 4
      [] c = "5" -> 5 [] c = "6" -> 6 [] c = "7" -> 7 [] c = "8" -> 8 [] c = "9" -> 9

RECURSIVE LuhnSum(_, _, _)
LuhnSum(digits, i, flip) ==
    IF i = 0 THEN 0
    ELSE LET n == DigitValue(digits[i])
             m == IF flip THEN (IF 2 * n > 9 THEN 2 * n - 9 ELSE 2 * n) ELSE n
         IN m + LuhnSum(digits, i - 1, ~flip)

\* without the sum: any 12 digits pass
luhnCheckLengthOnly(number) == Len(OnlyDigits(number)) >= 12

luhnCheck(number) ==
    LET digits == OnlyDigits(number)
    IN Len(digits) >= 12 /\ LuhnSum(digits, Len(digits), FALSE) % 10 = 0

\* one test of detectTypes
Detected(type, val, hints) ==
    CASE type = "cardNumber" ->
            /\ PatternTest(type, val) \/ type \in hints
            /\ Len(OnlyDigits(val)) >= 13
            /\ Len(OnlyDigits(val)) <= 19
            /\ luhnCheck(val)
      [] type = "password" -> type \in hints
      [] OTHER -> PatternTest(type, val) \/ type \in hints

detectTypes(val, hints) ==
    LET Test(type) == Detected(type, val, hints)
    IN SelectSeq(TypeOrder, Test)

NullSample == [null |-> TRUE]

Text(chars) == [null |-> FALSE, text |-> chars]

\* raw.split("@"): the part before the first "@" and the part after it
AtPlaces(raw) == {i \in 1..Len(raw) : raw[i] = "@"}

FirstAt(raw, from) == CHOOSE i \in AtPlaces(raw) : i >= from /\ \A j \in AtPlaces(raw) : j >= from => i <= j

SplitU(raw) == IF AtPlaces(raw) = {} THEN raw ELSE SubSeq(raw, 1, FirstAt(raw, 1) - 1)

SplitD(raw) ==
    IF AtPlaces(raw) = {} THEN << >>
    ELSE LET a == FirstAt(raw, 1)
             later == {i \in AtPlaces(raw) : i > a}
         IN IF later = {} THEN SubSeq(raw, a + 1, Len(raw))
            ELSE SubSeq(raw, a + 1, FirstAt(raw, a + 1) - 1)

anonymizeSample(value, type) ==
    IF value = << >> THEN NullSample
    ELSE LET raw == value
             d == OnlyDigits(raw)
         IN CASE type = "cardNumber" ->
                    IF Len(d) >= 4
                    THEN Text(Mask(4) \o <<" ">> \o Mask(4) \o <<" ">> \o Mask(4) \o <<" ">> \o SliceLast4(d))
                    ELSE Text(Mask(4))
              [] type = "bankAccount" ->
                    IF Len(d) >= 4
                    THEN Text(<<"A", "c", "c", "t", " ">> \o Mask(4) \o SliceLast4(d))
                    ELSE Text(<<"A", "c", "c", "t", " ">> \o Mask(4))
              [] type \in {"nin", "bvn"} -> Text(Mask(4) \o SliceLast4(raw))
              [] type = "email" ->
                    LET u == SplitU(raw)
                        dom == SplitD(raw)
                        uMask == IF Len(u) > 2 THEN <<u[1]>> \o Mask(2) \o <<u[Len(u)]>> ELSE Mask(3)
                    IN IF dom = << >> THEN Text(Mask(3) \o <<"@">> \o Mask(3))
                       ELSE Text(uMask \o <<"@">> \o dom)
              [] type = "phone" ->
                    IF Len(d) >= 4 THEN Text(Mask(3) \o SliceLast4(d)) ELSE Text(Mask(3))
              [] OTHER ->
                    IF Len(raw) > 4 THEN Text(<<raw[1]>> \o Mask(3) \o <<raw[Len(raw)]>>)
                    ELSE Text(Mask(3))

NoSample == [logged |-> FALSE]

\* the debounced onChange of hookAllInputs, up to its appendLog call
FieldChangeLog ==
    /\ SETTINGS["p1"].enableProtection
    /\ ~loggedSample.logged
    /\ LET types == detectTypes(elValue, elHints)
       IN /\ types # << >>
          /\ loggedSample' = [logged |-> TRUE, types |-> types,
                              sample |-> anonymizeSample(elValue, types[1])]
    /\ UNCHANGED <<elValue, elHints, riskInput, riskOutput, privVars, cbVars, sgVars, breachVars, camVars, itpVars, now>>

NoRisk == [done |-> FALSE]

\* no field is being analysed
InitPure ==
    /\ elValue = << >>
    /\ elHints = {}
    /\ loggedSample = NoSample
    /\ riskInput = [types |-> << >>, https |-> TRUE, crossOrigin |-> FALSE, trusted |-> TRUE]
    /\ riskOutput = NoRisk

Init == now = 0 /\ InitITP /\ InitCam /\ InitSG /\ InitBreach /\ InitPriv /\ InitCb /\ InitPure

\* a field with any value and any label
InitSample ==
    /\ now = 0 /\ InitITP /\ InitCam /\ InitSG /\ InitBreach /\ InitPriv /\ InitCb
    /\ elValue \in FieldValues
    /\ elHints \in FieldContexts
    /\ loggedSample = NoSample
    /\ riskInput = [types |-> << >>, https |-> TRUE, crossOrigin |-> FALSE, trusted |-> TRUE]
    /\ riskOutput = NoRisk

SpecSample == InitSample /\ [][FieldChangeLog]_vars

\* card-number-shaped values: a run of 10, 11 or 18 digits followed by up to
\* MaxTail more, as typed or with a space after the fourth digit
MaxTail == 2

CardPrefixes ==
    {[i \in 1..n |-> IF i = 1 THEN "4" ELSE "1"] : n \in {10, 11, 18}}

CardTails ==
    UNION {[1..n -> {"0", "1", "2", "3", "4", "5", "6", "7", "8", "9"}] : n \in 0..MaxTail}

Spaced(val) == SubSeq(val, 1, 4) \o <<" ">> \o SubSeq(val, 5, Len(val))

CardValues ==
    LET plain == {prefix \o tail : prefix \in CardPrefixes, tail \in CardTails}
    IN plain \cup {Spaced(val) : val \in plain}

\* labels with and without a card keyword, and with the keyword of another type
CardContexts == {{}, {"cardNumber"}, {"bvn"}, {"cardNumber", "bvn"}}

\* a field with a card-number-shaped value
InitCard ==
    /\ now = 0 /\ InitITP /\ InitCam /\ InitSG /\ InitBreach /\ InitPriv /\ InitCb
    /\ elValue \in CardValues
    /\ elHints \in CardContexts
    /\ loggedSample = NoSample
    /\ riskInput = [types |-> << >>, https |-> TRUE, crossOrigin |-> FALSE, trusted |-> TRUE]
    /\ riskOutput = NoRisk

SpecCard == InitCard /\ [][FieldChangeLog]_vars

(***************************************************************************)
(* Identity Theft Protection: one call of computeRisk                      *)
(***************************************************************************)
\* types a caller passes: three known ones and one TYPE_WEIGHT has no entry for
RiskTypes == {"email", "cardNumber", "cvv", "unknown"}

MaxTypes == 3

TypeLists == UNION {[1..n -> RiskTypes] : n \in 0..MaxTypes}

RiskInputs ==
    [types : TypeLists, https : BOOLEAN, crossOrigin : BOOLEAN, trusted : BOOLEAN]

\* computeRisk({ types, https, crossOrigin, trusted }) returns
ComputeRiskCall ==
    /\ ~riskOutput.done
    /\ riskOutput' =
           LET risk == computeRisk(riskInput.types, riskInput.https,
                                   riskInput.crossOrigin, riskInput.trusted)
           IN [done |-> TRUE, score |-> risk.score, level |-> risk.level]
    /\ UNCHANGED <<riskInput, elValue, elHints, loggedSample, privVars, cbVars, sgVars, breachVars, camVars, itpVars, now>>

\* a call with any argument
InitRisk ==
    /\ now = 0 /\ InitITP /\ InitCam /\ InitSG /\ InitBreach /\ InitPriv /\ InitCb
    /\ elValue = << >>
    /\ elHints = {}
    /\ loggedSample = NoSample
    /\ riskInput \in RiskInputs
    /\ riskOutput = NoRisk

SpecRisk == InitRisk /\ [][ComputeRiskCall]_vars

(***************************************************************************)
(* Every score the extensions produce                                      *)
(***************************************************************************)
\* a call of computeRisk with any argument, of which the result is kept
ComputeRiskAny ==
    /\ ~riskOutput.done
    /\ \E input \in RiskInputs :
           riskOutput' =
               LET risk == computeRisk(input.types, input.https, input.crossOrigin, input.trusted)
               IN [done |-> TRUE, score |-> risk.score, level |-> risk.level]
    /\ UNCHANGED <<riskInput, elValue, elHints, loggedSample, privVars, cbVars, sgVars, breachVars, camVars, itpVars, now>>

NextScore ==
    \/ \E https \in BOOLEAN : initializeSiteAnalysis(https)
    \/ TabRemoved
    \/ \E domain \in RequestDomains, fingerprinting \in BOOLEAN :
            analyzeRequest(domain, fingerprinting)
    \/ \E headers \in SUBSET SecurityHeaders,
           setCookie \in [CookieNames -> {Absent} \cup {Stored(c) : c \in Cookies}] :
            analyzeResponse(headers, setCookie)
    \/ FingerprintingDetected
    \/ blockAllTrackers
    \/ \E domain \in RequestDomains : blockSpecificTracker(domain)
    \/ ComputeRiskAny

SpecScore == Init /\ [][NextScore]_vars

(***************************************************************************)
(* Specifications                                                          *)
(***************************************************************************)
\* Identity Theft Protection: one page, the popup and the stored settings
NextITP ==
    \/ \E f \in Forms : SubmitHandler("p1", f)
    \/ \E f \in Forms : FieldChange("p1", f)
    \/ \E f \in Forms : BadgeDetails("p1", f)
    \/ \E n \in BOOLEAN : ProceedOnce("p1", n)
    \/ BlockSubmit("p1")
    \/ \E pin \in Pins \cup {Null} : TrustCurrentDomain("p1", pin)
    \/ PageLoad("p1")
    \/ PopupOpen
    \/ PopupClose
    \/ PopupToggleBlockOnHighRisk
    \/ PopupToggleRequirePin
    \/ \E pin \in SavedPins : PopupSavePin(pin)
    \/ PopupClearPin
    \/ \E h \in ManagedHosts : PopupAddTrust(h)
    \/ \E h \in ManagedHosts : PopupRemoveTrust(h)

Spec == Init /\ [][NextITP]_vars

\* the two persisted logs and their writers: appendLog of the two pages' content
\* scripts on itpLogs, logActivity of the Privacy Guard background on activityLog
NextLog ==
    \/ \E p \in Pages : AppendLogCall(p, "allowed-submit")
    \/ \E i \in Slots : AppendLogCallback(i)
    \/ \E i \in Slots : AppendLogStore(i)
    \/ BgLogActivityMessage("t1")
    \/ \E i \in Slots : LogActivityResume(i)
    \/ \E i \in Slots : LogActivityStore(i)

SpecLog == Init /\ [][NextLog]_vars

\* appendLog alone, with every call finished before the next one starts
NoAppendInFlight == \A i \in Slots : itpOps[i].phase = "idle"

NextLogSeq ==
    \/ \E p \in Pages, a \in LogActions : NoAppendInFlight /\ AppendLogCall(p, a)
    \/ \E i \in Slots : AppendLogCallback(i)
    \/ \E i \in Slots : AppendLogStore(i)
    \/ Tick

SpecLogSeq == Init /\ [][NextLogSeq]_vars

\* the writers of the Privacy Guard's activityLog: the background's logActivity
\* for access attempts, the popup's logActivity for temporary grants
NextActivity ==
    \/ GuardPopupOpen
    \/ GuardPopupClose
    \/ \E t \in Tabs : BgAccessAttempt(t, "video")
    \/ PopupLogActivity("webcam")
    \/ \E i \in Slots : LogActivityResume(i)
    \/ \E i \in Slots : LogActivityStore(i)

SpecActivity == Init /\ [][NextActivity]_vars

\* Webcam/Mic Privacy Guard: popup, background, tabs and the stored grants
NextGuard ==
    \/ Tick
    \/ GuardPopupOpen
    \/ GuardPopupClose
    \/ \E d \in ToggledDevices : GuardToggle(d)
    \/ BgLoadSettings
    \/ \E c \in DeviceChoices, d \in Durations :
           now < MaxNow /\ grantTemporaryAccess(c[1], c[2], d)
    \/ BgStart
    \/ cleanupExpiredPermissions
    \/ \E t \in Tabs : ActivateTab(t)
    \/ \E t \in Tabs, c \in DeviceChoices, r \in BOOLEAN :
           interceptedGetUserMedia(t, c[1], c[2], r)

SpecGuard == Init /\ [][NextGuard]_vars

\* SecureGuard: one tab, its link clicks and navigations, and the service worker
\* breach checks of one page, with the popup and the background worker
NextBreach ==
    \/ PopupOpen
    \/ PopupClose
    \/ PopupToggleBreachChecks
    \/ PageLoad("p1")
    \/ \E email \in Emails : EmailTyped("p1", email)
    \/ \E i \in Slots, result \in HibpResults : HibpResponds(i, result)
    \/ BgWorkerStart
    \/ BgSettingsLoaded
    \/ BgSettingsChanged
    \/ BreachTick

SpecBreach == Init /\ [][NextBreach]_vars

SpecCategory == Init /\ [][NextCategory]_vars

NextLink ==
    \/ \E u \in Urls : ClickLink(u)
    \/ FollowLink
    \/ \E ok \in BOOLEAN : ConfirmDialog(ok)
    \/ \E u \in Urls : UserNavigates(u)
    \/ \E i \in ScanSlots, a \in SafeBrowsingAnswers : SafeBrowsingResponds(i, a)
    \/ \E u \in Urls, f \in BOOLEAN : VirusTotalResponds(u, f)
    \/ WorkerStops

\* what the content script does by itself once it can: the link's callback
LinkProgress == FollowLink

SpecLink == Init /\ [][NextLink]_vars /\ WF_vars(LinkProgress)

(***************************************************************************)
(* Properties                                                              *)
(***************************************************************************)
\* C1: Proceed Once is a single-action override: the flag it sets does not survive
\* the submission it was given for.  Stated on the step that sends the pending
\* form: once Proceed Once has submitted the blocked form, the page's override
\* flag is off, so the next high-risk submission is blocked again.
C1_OverrideConsumed ==
    [][\A p \in Pages : \A n \in BOOLEAN :
          (pendingFormToSubmit[p] # Null /\ ProceedOnce(p, n)) => ~proceedOnceFlag'[p]]_vars

\* C2: with protection enabled, a submission holding a detected sensitive type is
\* prevented and logged "blocked-submit" exactly when its level is high,
\* blockOnHighRisk is on, the host is not trusted and no one-time override is
\* pending; otherwise it proceeds and is logged "allowed-submit".
C2_BlockedIff ==
    [][\A p \in Pages : \A f \in Forms :
          (SubmitHandler(p, f) /\ SETTINGS[p].enableProtection /\ FormTypes(f) # << >>) =>
              LET trusted == getHost(p) \in SETTINGS[p].trustedDomains
                  level == computeRisk(FormTypes(f), isHTTPS(p), FormCrossOrigin(f),
                                       trusted).level
              IN IF level = "high" /\ SETTINGS[p].blockOnHighRisk /\ ~trusted
                    /\ ~proceedOnceFlag[p]
                 THEN lastSubmit'[p] = SubmitResult(f, "prevented", "blocked-submit")
                 ELSE lastSubmit'[p] = SubmitResult(f, "proceeds", "allowed-submit")]_vars

\* C2 witness: a high-scoring card form went out from a trusted host while
\* blockOnHighRisk was on and no override was pending
C2_TrustedHighRiskAllowed ==
    /\ lastSubmit["p1"] = SubmitResult("cardForm", "proceeds", "allowed-submit")
    /\ "shop.example" \in SETTINGS["p1"].trustedDomains
    /\ FormRisk("p1", "cardForm", SETTINGS["p1"]).level = "high"
    /\ SETTINGS["p1"].blockOnHighRisk
    /\ ~proceedOnceFlag["p1"]

\* C3: concurrent appends lose no entry: whenever a writer's set reaches the
\* storage, the stored log holds one entry more than before (or stays at its cap),
\* for appendLog on itpLogs and for logActivity on activityLog alike.
C3_NoLostAppend ==
    [][/\ \A i \in Slots :
             AppendLogStore(i) => Len(itpLogs') >= Min(Len(itpLogs) + 1, LogLimit)
       /\ \A i \in Slots :
             LogActivityStore(i) =>
                 Len(activityLog') >= Min(Len(activityLog) + 1, actOps[i].cap)]_vars

\* the last n elements of a sequence
LastN(seq, n) == [k \in 1..Min(n, Len(seq)) |-> seq[Len(seq) - Min(n, Len(seq)) + k]]

StoredGrants(store) == LoadedPermissions(store, << >>)

\* C5: a sweep removes only expired grants: cleanupExpiredPermissions drops from
\* the background's map exactly the grants with expiry <= now, and every
\* unexpired grant that was in storage before the sweep is in storage after it.
C5_SweepKeepsUnexpired ==
    [][cleanupExpiredPermissions =>
          /\ bgTemp' = SelectSeq(bgTemp, LAMBDA e : e.perm.expiry > now)
          /\ \A t \in Tabs :
                LET before == MapGet(StoredGrants(tempStore), TabSite(t))
                IN (before.present /\ before.expiry > now) =>
                       MapGet(StoredGrants(tempStore'), TabSite(t)) = before]_vars

\* C6: Scenario E: right after a 5 minute webcam grant for a site the
\* background's permission check for that site reports the grant (reason
\* "temporary"); and once 6 minutes have passed and the sweep has run, it does not.
C6_ScenarioE ==
    [][/\ grantTemporaryAccess(TRUE, FALSE, 5) =>
             checkSitePermissions(TabSite(guardPopup.tab), FALSE)'.reason = "temporary"
       /\ cleanupExpiredPermissions =>
             \A t \in Tabs :
                LET g == MapGet(bgTemp, TabSite(t))
                IN (g.present /\ g.expiry + 1 <= now) =>
                       checkSitePermissions(TabSite(t), FALSE)'.reason # "temporary"]_vars

\* the entries a map holds for a site
EntriesFor(m, site) == {i \in 1..Len(m) : m[i].site = site}

\* C7: granting temporary access for a site that already has a grant leaves
\* exactly one record for the site, in the popup's map and in storage, and that
\* record carries the devices and the expiry of the later grant.
C7_GrantSupersedes ==
    [][\A c \in DeviceChoices, d \in Durations :
          (grantTemporaryAccess(c[1], c[2], d)
             /\ MapGet(guardPopup.perms, TabSite(guardPopup.tab)).present) =>
              LET site == TabSite(guardPopup.tab)
                  stored == StoredGrants(tempStore')
              IN /\ Cardinality(EntriesFor(guardPopup'.perms, site)) = 1
                 /\ Cardinality(EntriesFor(stored, site)) = 1
                 /\ \A i \in EntriesFor(stored, site) :
                       stored[i].perm = Perm(c[1], c[2], now + d)]_vars

\* C7 witness: the popup has granted the same site twice: the background still
\* holds the first grant it loaded, the popup and the storage hold the second one
C7_SecondGrantStored ==
    /\ guardPopup.open
    /\ LET site == TabSite(guardPopup.tab)
           first == MapGet(bgTemp, site)
           second == MapGet(guardPopup.perms, site)
       IN /\ first.present /\ second.present /\ first # second
          /\ tempStore.present
          /\ Cardinality(EntriesFor(tempStore.value, site)) = 1
          /\ MapGet(tempStore.value, site) = second

\* whether a grant has reached its expiry at time t
Expired(perm, t) == perm.present /\ perm.expiry <= t

\* C8: a grant whose expiry is at or before the current time is treated as active
\* by no permission check, swept or not: the background's check does not answer
\* "temporary" for it, the popup does not display it, and a getUserMedia call the
\* settings do not allow is denied by the page interceptor in spite of it (a
\* step that changes lastMedia is a getUserMedia call).
C8_ExpiredGrantInert ==
    [][/\ \A t \in Tabs :
             Expired(MapGet(bgTemp, TabSite(t)), now) =>
                 checkSitePermissions(TabSite(t), FALSE).reason # "temporary"
       /\ \A t \in Tabs :
             Expired(MapGet(guardPopup.perms, TabSite(t)), now) =>
                 ~PopupShowsGrant(guardPopup.perms, TabSite(t), now)
       /\ lastMedia' # lastMedia =>
             LET t == lastMedia'.tab
             IN (/\ Expired(injTemp[t], now)
                 /\ \/ csIsBackground[t] /\ bgSettings.autoBlockBackground
                    \/ lastMedia'.video /\ bgSettings.webcamBlocked
                    \/ lastMedia'.audio /\ bgSettings.micBlocked) =>
                    lastMedia'.outcome = "denied"]_vars

\* C8 witness: a page asked for the device of its grant at the very instant the
\* grant expired, unswept, and was denied
C8_DeniedAtExpiry ==
    /\ lastMedia.tab = "t1"
    /\ lastMedia.outcome = "denied"
    /\ injTemp["t1"].present
    /\ injTemp["t1"].expiry = lastMedia.at
    /\ injTemp["t1"].webcam = lastMedia.video
    /\ injTemp["t1"].microphone = lastMedia.audio
    /\ now = lastMedia.at

\* the settings as the storage holds them
StoredSettings == MergeDefaults(itpSettings)

\* C9: a change of the trusted-domain set takes effect on the next evaluation on
\* an already-open page: every submit decision is the one the stored
\* trustedDomains of that moment calls for.
C9_NextEvaluationSeesTrust ==
    [][\A p \in Pages : \A f \in Forms :
          (SubmitHandler(p, f) /\ SETTINGS[p].enableProtection /\ FormTypes(f) # << >>) =>
              LET trusted == getHost(p) \in StoredSettings.trustedDomains
                  level == computeRisk(FormTypes(f), isHTTPS(p), FormCrossOrigin(f),
                                       trusted).level
              IN lastSubmit'[p].outcome =
                     IF level = "high" /\ SETTINGS[p].blockOnHighRisk /\ ~trusted
                        /\ ~proceedOnceFlag[p]
                     THEN "prevented" ELSE "proceeds"]_vars

\* C10: while the stored requirePinForTrust is on, a host enters the stored
\* trustedDomains only through the in-page trust flow with a PIN whose digest is
\* the stored pinHash.
C10_TrustNeedsPin ==
    [][\A h \in Hosts :
          (/\ StoredSettings.requirePinForTrust
           /\ h \notin StoredSettings.trustedDomains
           /\ h \in MergeDefaults(itpSettings').trustedDomains) =>
              \E p \in Pages, pin \in Pins :
                 /\ TrustCurrentDomain(p, pin)
                 /\ getHost(p) = h
                 /\ sha256Hex(pin) = StoredSettings.pinHash]_vars

C12_ClickEventuallyDecided ==
    (sgClick.phase = "waiting") ~> (sgClick.phase \in {"navigated", "confirm", "none"})

\* C13: breach checks are opt-in: a step that starts a hibpCheckEmail lookup is
\* taken only while the stored settings have enableBreachChecks set.
C13_LookupOnlyIfOptedIn ==
    [][(\E i \in Slots : hibpOps[i].phase = "idle" /\ hibpOps'[i].phase = "lookup")
           => StoredSettings.enableBreachChecks]_vars

\* C14: stale reputation results are not applied: a breach result is shown on a
\* page only while the page's email field still holds the email that was looked
\* up, and a deep-scan alert is shown only on the page whose URL was scanned.
C14_NoStaleResult ==
    /\ \A p \in Pages : breachToast[p].shown => breachToast[p].field = breachToast[p].email
    /\ sgAlert.type = "deep_scan" => sgAlert.url = sgAlert.shownOn

\* C15: the reputation caches honour a fixed TTL: a request is answered from the
\* cache, without a lookup, exactly when the entry was stored less than the TTL
\* ago (5 minutes for scanUrl, 15 for the breach cache), and the result of every
\* lookup replaces the entry.
C15_CacheHonoursTTL ==
    [][/\ \A e \in Emails :
            (EmailTyped("p1", e) /\ SETTINGS["p1"].enableBreachChecks /\ BreachGate(bgSETTINGS))
                => ((hibpOps' = hibpOps) <=>
                        (breachCache[e].present /\ now - breachCache[e].value.storedAt < BreachTTL))
       /\ \A i \in Slots, r \in HibpResults :
            HibpResponds(i, r)
                => (breachCache'[hibpOps[i].email].present
                        /\ breachCache'[hibpOps[i].email].value.storedAt = now)
       /\ \A u \in Urls :
            (UserNavigates(u) \/ ClickLink(u))
                => ((sgScans' = sgScans) <=>
                        (safeBrowsingCache[u].present
                            /\ now - safeBrowsingCache[u].value.timestamp < SafeBrowsingTTL))
       /\ \A i \in ScanSlots, a \in SafeBrowsingAnswers :
            SafeBrowsingResponds(i, a)
                => safeBrowsingCache'[sgScans[i].url] =
                       Stored([data |-> ScanResult(sgScans[i].url, a), timestamp |-> now])
      ]_vars

\* the sample contains the whole raw value
ContainsSeq(text, raw) ==
    \E i \in 1..(Len(text) - Len(raw) + 1) : SubSeq(text, i, i + Len(raw) - 1) = raw

\* C16: no audit entry stores a raw sensitive value: for every non-empty value of
\* a field with a detected type, the logged sample differs from the raw value and
\* does not contain it.
C16_SampleHidesRawValue ==
    (loggedSample.logged /\ elValue # << >>)
        => /\ ~loggedSample.sample.null
           /\ loggedSample.sample.text # elValue
           /\ ~ContainsSeq(loggedSample.sample.text, elValue)

\* C17: Scenario A: a cross-origin post with no sensitive types on an HTTPS,
\* untrusted host scores 20 (the cross-origin penalty only), level low.
C17_ScenarioA ==
    (riskOutput.done
        /\ riskInput = [types |-> << >>, https |-> TRUE, crossOrigin |-> TRUE, trusted |-> FALSE])
        => (riskOutput.score = 20 /\ riskOutput.level = "low")

\* the sum of TYPE_WEIGHT over a set of types
RECURSIVE WeightOfSet(_)
WeightOfSet(S) ==
    IF S = {} THEN 0
    ELSE LET t == CHOOSE x \in S : TRUE IN TYPE_WEIGHT(t) + WeightOfSet(S \ {t})

DistinctTypes(types) == {types[i] : i \in 1..Len(types)}

\* C19: computeRisk is the weighted sum with cap and clamp over the distinct
\* types: score = min(100, max(0, min(100, sum of the weights of the distinct
\* types) + 30 if not https + 20 if crossOrigin + 20 if not trusted)); the score
\* depends on the set of types only, so repeating a type never changes it.
C19_WeightedSumCapClamp ==
    riskOutput.done =>
        riskOutput.score =
            Min(100, Max(0, Min(100, WeightOfSet(DistinctTypes(riskInput.types)))
                                + (IF ~riskInput.https THEN 30 ELSE 0)
                                + (IF riskInput.crossOrigin THEN 20 ELSE 0)
                                + (IF ~riskInput.trusted THEN 20 ELSE 0)))

\* C19 witness: a call whose list repeats a type has returned the score of the
\* list without the repetition.
C19_RepeatedTypeScored ==
    /\ riskOutput.done
    /\ riskInput = [types |-> <<"email", "cvv", "email">>, https |-> TRUE,
                    crossOrigin |-> FALSE, trusted |-> TRUE]
    /\ riskOutput.score = 90

\* the documented scoring algorithm, on a tab's data
DocumentedScore(d) ==
    LET noSecure == Cardinality({c \in CookieNames : d.cookies[c].present /\ ~d.cookies[c].value.secure})
        noHttpOnly == Cardinality({c \in CookieNames : d.cookies[c].present /\ ~d.cookies[c].value.httpOnly})
        calculated == 100 - 10 * Cardinality(d.trackers) - 5 * noSecure - 3 * noHttpOnly
                          - (IF d.isHTTPS THEN 0 ELSE 30)
                          - 15 * d.fingerprintingAttempts
                          + 5 * Cardinality(d.securityHeaders)
    IN Max(0, Min(100, calculated))

\* C18: the stored privacy score follows the documented formula: every step that
\* changes the data of an analysed tab (updatePrivacyScore after a request, a
\* response or a fingerprinting report, blockAllTrackers, blockSpecificTracker)
\* leaves privacyScore equal to the formula on the tab's new data.
C18_ScoreFollowsFormula ==
    [][(/\ siteData.present
        /\ siteData'.present
        /\ siteData' # siteData
        /\ ~(\E https \in BOOLEAN : initializeSiteAnalysis(https)))
           => siteData'.privacyScore = DocumentedScore(siteData')]_vars

\* C20: every score stays within [0, 100]: the score computeRisk returns, and a
\* tab's privacyScore after any sequence of request, response, fingerprinting
\* and block-tracker events.
C20_ScoresBounded ==
    /\ riskOutput.done => (riskOutput.score >= 0 /\ riskOutput.score <= 100)
    /\ siteData.present => (siteData.privacyScore >= 0 /\ siteData.privacyScore <= 100)

\* C20 witness: both clamps have acted: the tab's deductions pass 100 and its
\* score is 0, and a computeRisk call whose sum passes 100 returned 100.
C20_BothClamped ==
    /\ siteData.present
    /\ RawPrivacyScore(siteData) < 0
    /\ siteData.privacyScore = 0
    /\ riskOutput.done
    /\ riskOutput.score = 100

\* C21: threshold consistency: for every result of computeRisk, level is high
\* exactly when score >= 70, low exactly when score < 40, and mod exactly when
\* 40 <= score < 70.
C21_ThresholdConsistency ==
    riskOutput.done =>
        /\ (riskOutput.level = "high") <=> (riskOutput.score >= 70)
        /\ (riskOutput.level = "low") <=> (riskOutput.score < 40)
        /\ (riskOutput.level = "mod") <=> (riskOutput.score >= 40 /\ riskOutput.score < 70)

\* C21 witness: calls have returned a score on each threshold, 70 with level
\* high or 40 with level mod.
C21_ScoreOnThreshold ==
    /\ riskOutput.done
    /\ \/ riskOutput.score = 70 /\ riskOutput.level = "high" /\ riskInput.types = <<"cvv">>
       \/ riskOutput.score = 40 /\ riskOutput.level = "mod" /\ riskInput.types = <<"email">>

\* C22: monotonicity: for the call that returned, the same call with one more
\* type in the list never scores lower, and the same call with trusted changed
\* from true to false never scores lower.
C22_Monotone ==
    riskOutput.done =>
        /\ \A t \in RiskTypes :
              computeRisk(Append(riskInput.types, t), riskInput.https,
                          riskInput.crossOrigin, riskInput.trusted).score >= riskOutput.score
        /\ riskInput.trusted =>
              computeRisk(riskInput.types, riskInput.https,
                          riskInput.crossOrigin, FALSE).score >= riskOutput.score

\* C22 witness: a trusted call has returned a score below the cap, which one more
\* type and the loss of trust both raise.
C22_RoomToGrow ==
    /\ riskOutput.done
    /\ riskInput.trusted
    /\ riskInput.types = <<"email">>
    /\ riskOutput.score < computeRisk(<<"email", "cvv">>, riskInput.https,
                                      riskInput.crossOrigin, TRUE).score
    /\ riskOutput.score < computeRisk(<<"email">>, riskInput.https,
                                      riskInput.crossOrigin, FALSE).score

\* the standard mod-10 check-digit algorithm on a sequence of digits
Mod10Valid(digits) ==
    LET n == Len(digits)
        sum[i \in 0..n] ==
            IF i = 0 THEN 0
            ELSE LET v == DigitValue(digits[n - i + 1])
                     w == IF i % 2 = 1 THEN v ELSE IF 2 * v > 9 THEN 2 * v - 9 ELSE 2 * v
                 IN sum[i - 1] + w
    IN sum[n] % 10 = 0

HasType(types, t) == \E i \in 1..Len(types) : types[i] = t

\* C23: Scenario D: detectTypes emits cardNumber only for a value with 13 to 19
\* digits that passes the mod-10 check, whatever the regex and the label's
\* keywords say; so does every logged entry.
C23_CardNumberNeedsChecksum ==
    (\/ HasType(detectTypes(elValue, elHints), "cardNumber")
     \/ (loggedSample.logged /\ HasType(loggedSample.types, "cardNumber")))
        => /\ Len(OnlyDigits(elValue)) >= 13
           /\ Len(OnlyDigits(elValue)) <= 19
           /\ Mod10Valid(OnlyDigits(elValue))

\* C23 witness: a value the card regex matches, in a field labelled as a card
\* number, fails the mod-10 check and was logged without cardNumber.
C23_RegexMatchRejected ==
    /\ loggedSample.logged
    /\ CardPattern(elValue)
    /\ "cardNumber" \in elHints
    /\ ~Mod10Valid(OnlyDigits(elValue))
    /\ ~HasType(loggedSample.types, "cardNumber")

\* C24: a valid PIN override unblocks: the document loaded by the reload of a
\* successful override is shown, and its scan puts no overlay on it.
C24_OverrideUnblocks ==
    (cbTab.shows # "nothing" /\ cbTab.override)
        => (cbTab.shows = "page" /\ ~cbTab.overlay)

\* the rules the stored schedule holds for a category; the popup's schedule
\* names no category and counts for each
RulesFor(category) ==
    IF cbStore.schedule.isArray
    THEN {cbStore.schedule.rules[i] : i \in {j \in 1..Len(cbStore.schedule.rules) :
                                                cbStore.schedule.rules[j].category = category}}
    ELSE {[category |-> category, start |-> cbStore.schedule.start,
           end |-> cbStore.schedule.end, days |-> cbStore.schedule.days]}

\* C29: schedule semantics: a request to a domain of an enabled category is
\* blocked only within the days and hours of a rule when rules are present for
\* the category, and always when there is none; also when only other categories
\* have rules, and for a schedule saved through the popup.
C29_ScheduleSemantics ==
    [][\A page \in CbPages, category \in Categories :
          (/\ CbNavigate(page)
           /\ CbInSync
           /\ category \in cbStore.blockedCategories
           /\ page.host \in domainList(category))
              => ((cbTab'.shows = "blocked.html") <=>
                     (\/ RulesFor(category) = {}
                      \/ \E rule \in RulesFor(category) :
                            /\ cbClock.day \in rule.days
                            /\ cbClock.time >= rule.start
                            /\ cbClock.time <= rule.end))]_vars

\* C25: granting temporary access for one site leaves every other site's
\* unexpired grant in storage untouched: after grantTemporaryAccess for site B, a
\* stored unexpired grant for site A is still stored, with the same devices and
\* expiry.
C25_GrantKeepsOtherSites ==
    [][\A c \in DeviceChoices, d \in Durations :
          grantTemporaryAccess(c[1], c[2], d) =>
              \A t \in Tabs :
                 LET before == MapGet(StoredGrants(tempStore), TabSite(t))
                 IN (/\ TabSite(t) # TabSite(guardPopup.tab)
                     /\ before.present
                     /\ before.expiry > now)
                        => MapGet(StoredGrants(tempStore'), TabSite(t)) = before]_vars

\* C26: background-tab blocking cannot be bypassed: whenever autoBlockBackground
\* is enabled and the requesting tab is a background tab, an intercepted
\* getUserMedia call is denied, even when an unexpired temporary grant for the
\* site exists (a step that changes lastMedia is a getUserMedia call).
C26_BackgroundTabDenied ==
    [][(/\ lastMedia' # lastMedia
        /\ bgSettings.autoBlockBackground
        /\ csIsBackground[lastMedia'.tab])
           => lastMedia'.outcome = "denied"]_vars

\* C27: trusting the current host from a page changes only the trusted set:
\* after the in-page trust flow saves, the stored settings contain the new host
\* in trustedDomains, and every other stored setting, the trusted domains added
\* elsewhere included, has the value most recently written to storage.
C27_TrustChangesOnlyTrustedSet ==
    [][\A pin \in Pins \cup {Null} :
          (/\ TrustCurrentDomain("p1", pin)
           /\ PinGatePasses(SETTINGS["p1"], pin)
           /\ ~IsTrusted(SETTINGS["p1"], "p1"))
              => MergeDefaults(itpSettings') =
                     [MergeDefaults(itpSettings) EXCEPT
                         !.trustedDomains = @ \cup {getHost("p1")}]]_vars

\* C28: a blocked form is only ever resumed by the override given for it: while
\* a blocked form is pending, a 'Proceed Once' click in a details modal that was
\* opened for a different form does not submit the pending form.
C28_ResumedOnlyByOwnOverride ==
    [][\A n \in BOOLEAN :
          (/\ ProceedOnce("p1", n)
           /\ pendingFormToSubmit["p1"] # Null
           /\ modalFor["p1"] # pendingFormToSubmit["p1"])
              => ~(/\ lastSubmit'["p1"].outcome = "native"
                   /\ lastSubmit'["p1"].form = pendingFormToSubmit["p1"])]_vars

\* C30: the activity log keeps the last 1000 activities: every write of a logged
\* access attempt or temporary grant leaves in storage the entries stored before
\* it followed by the new entry, trimmed to the most recent ActivityCap; no writer
\* drops an entry among the latest ActivityCap.
C30_KeepsLastActivities ==
    [][\A i \in Slots :
          LogActivityStore(i) =>
              activityLog' = KeepLast(Append(activityLog, actOps[i].entry), ActivityCap)]_vars

====
